---- MODULE Spec2Model ----
(***************************************************************************)
(* The VirtualBox driver's VM lifecycle (Create, Start, Stop, Restart,     *)
(* Kill, Remove) driving the hypervisor through VBoxManage commands.       *)
(* One driver instance, one machine; the hypervisor is the environment.    *)
(* Every step of an operation is one call the code makes to the            *)
(* hypervisor CLI or to an injected collaborator (logs reader, IP waiter,  *)
(* sleeper, random source), together with the pure code that follows it.   *)
(***************************************************************************)
EXTENDS Integers, Sequences, FiniteSets, TLC

VARIABLES
    vm,              \* hypervisor: the machine's VMState token, or Absent
    adapters,        \* hypervisor: host-only adapters, a sequence of [name, ip, mask]
    nic2,            \* hypervisor: name of the adapter attached as NIC 2, 0 if none
    natpf,           \* hypervisor: NAT forwarding rules of interface 1
    HostOnlyCIDR,    \* Driver.HostOnlyCIDR
    Boot2DockerImportVM, \* Driver.Boot2DockerImportVM ("" if none)
    NoShare,         \* Driver.NoShare
    NoVTXCheck,      \* Driver.NoVTXCheck
    IPAddress,       \* BaseDriver.IPAddress (cached)
    SSHPort,         \* BaseDriver.SSHPort
    op,              \* the lifecycle operation in progress, "idle" if none
    pc,              \* position inside the operation
    stack,           \* return positions of the calls in progress
    s,               \* Start: the state read at entry
    hostOnlyAdapter, \* Start: adapter returned by setupHostOnlyNetwork, Nil if none
    currentState,    \* Stop: the state read at entry
    rs,              \* Remove: the state read at entry
    loc,             \* other locals: [i, adapter, dhcpAddr, port, plan]
    lines,           \* what logsReader.Read returned in this call
    lastPoll,        \* Stop: result of the latest state query of the poll loop
    polls,           \* Stop: number of polls that saw Running (saturating)
    rets,            \* return value of each function in this call, "none" if not returned
    trace,           \* calls issued in this top-level call: sequence of [c, ok, note]
    prevRemoved,     \* the previous top-level call was a Remove that returned nil
    probe,           \* a pure function applied to an input: [fn, in, out, done]
    inst             \* the drivers of other machines setting up their network at once

vars == <<vm, adapters, nic2, natpf, HostOnlyCIDR, Boot2DockerImportVM, NoShare, NoVTXCheck,
          IPAddress, SSHPort, op, pc, stack, s, hostOnlyAdapter, currentState, rs, loc, lines,
          lastPoll, polls, rets, trace, prevRemoved, probe, inst>>

hyper  == <<vm, adapters, nic2, natpf>>
config == <<HostOnlyCIDR, Boot2DockerImportVM, NoShare, NoVTXCheck>>
locals == <<s, hostOnlyAdapter, currentState, rs, loc, lines, lastPoll, polls>>
other  == <<probe, inst>>
fixed  == <<HostOnlyCIDR, Boot2DockerImportVM, NoShare, NoVTXCheck, op, prevRemoved, probe,
            inst>>

-----------------------------------------------------------------------------
(* Bounds of the model *)

MaxAdapters == 2     \* the hypervisor refuses to create more host-only adapters
MaxPolls    == 2     \* polls counted in Stop's loop (the count saturates)
MaxLogLines == 1     \* longest VBox.log the logs reader returns
MaxPort     == 2     \* TCP ports 1..MaxPort exist besides the "any port" 0
RandBound   == 3     \* RandomInt(n) draws from 0..Min(n, RandBound)-1
MaxInstances == 2    \* drivers of other machines running at the same time

(* Program constants *)

RandomRange   == 25  \* d.randomInter.RandomInt(25)
RandomTries   == 5   \* for i := 0; i < 5; i++
PortTries     == 10  \* for i := 0; i <= 10; i++
DHCPLower     == 100
DHCPUpper     == 254
GuestSSHPort  == 22

-----------------------------------------------------------------------------
(* Values *)

Nil    == "nil"      \* the nil error / nil pointer
NoRet  == "none"
Absent == "absent"   \* the machine is not registered with the hypervisor

\* VMState tokens showvminfo prints; "gurumeditation" stands for every token
\* GetState has no case for.
VMTokens == {"running", "paused", "saved", "poweroff", "aborted", "gurumeditation"}

\* libmachine state.State
Running == "Running"
Paused  == "Paused"
Saved   == "Saved"
Stopped == "Stopped"
None    == "None"
Error   == "Error"

ErrMachineNotExist          == "ErrMachineNotExist"
ErrMustEnableVTX            == "ErrMustEnableVTX"
ErrNotCompatibleWithHyperV  == "ErrNotCompatibleWithHyperV"
ErrNetworkAddrCidr          == "ErrNetworkAddrCidr"
ErrUnableToGenerateRandomIP == "ErrUnableToGenerateRandomIP"
ErrParseCIDR   == "ErrParseCIDR"      \* error of net.ParseCIDR
ErrCommand     == "ErrCommand"        \* a VBoxManage command exited non-zero
ErrListen      == "ErrListen"         \* error of net.Listen
ErrCollab      == "ErrCollaborator"   \* error of an injected collaborator or os call
ErrIPWait      == "ErrIPWait"         \* error of ipWaiter.Wait
\* fmt.Errorf builds a new error value: it is none of the errors above
ErrSetupNetwork == "Error setting up host only network on machine start"
ErrUnableStart  == "Unable to start the VM"
ErrCheckingVTX  == "Checking if hardware virtualization is enabled failed"

Min(a, b) == IF a < b THEN a ELSE b

-----------------------------------------------------------------------------
(* IPv4 addresses are 4-tuples of octets, masks are prefix lengths *)

Pow2(n) == IF n = 0 THEN 1 ELSE IF n = 1 THEN 2 ELSE IF n = 2 THEN 4
           ELSE IF n = 3 THEN 8 ELSE IF n = 4 THEN 16 ELSE IF n = 5 THEN 32
           ELSE IF n = 6 THEN 64 ELSE IF n = 7 THEN 128 ELSE 256

\* number of mask bits falling in octet k (1..4) of a /bits mask
OctetBits(bits, k) ==
    LET b == bits - 8 * (k - 1) IN IF b < 0 THEN 0 ELSE IF b > 8 THEN 8 ELSE b

\* ip.Mask(mask): each octet ANDed with the mask's octet
MaskIP(ip, bits) ==
    [k \in 1..4 |-> LET z == Pow2(8 - OctetBits(bits, k)) IN (ip[k] \div z) * z]

ZeroIP == <<0, 0, 0, 0>>

\* A CIDR string: kind "cidr" for a parsable "a.b.c.d/bits", "empty" for "",
\* "bad" for any other text.
CIDR(ip, bits) == [kind |-> "cidr", ip |-> ip, bits |-> bits]
EmptyCIDR      == [kind |-> "empty", ip |-> ZeroIP, bits |-> 0]
BadCIDR        == [kind |-> "bad", ip |-> ZeroIP, bits |-> 0]

defaultHostOnlyCIDR == CIDR(<<192, 168, 99, 1>>, 24)

\* net.ParseCIDR: the address, and the network (address masked, and the mask)
ParseCIDR(c) ==
    IF c.kind = "cidr"
    THEN [err |-> Nil, ip |-> c.ip,
          network |-> [IP |-> MaskIP(c.ip, c.bits), Mask |-> c.bits]]
    ELSE [err |-> ErrParseCIDR, ip |-> ZeroIP, network |-> [IP |-> ZeroIP, Mask |-> 0]]

\* (mutant) the host address is not compared with the network address
parseAndValidateCIDRUnchecked(hostOnlyCIDR) == ParseCIDR(hostOnlyCIDR)

parseAndValidateCIDR(hostOnlyCIDR) ==
    LET p == ParseCIDR(hostOnlyCIDR) IN
    IF p.err # Nil THEN p
    ELSE IF p.ip = p.network.IP
         THEN [err |-> ErrNetworkAddrCidr, ip |-> ZeroIP,
               network |-> [IP |-> ZeroIP, Mask |-> 0]]
         ELSE p

-----------------------------------------------------------------------------
(* The hypervisor CLI *)

\* VMState tokens plus "inaccessible": a registered machine for which
\* showvminfo prints no VMState line at all.
VMStates == VMTokens \cup {"inaccessible"}

\* stdout of "showvminfo --machinereadable": KEY="value" lines
Stdout(v) ==
    IF v = "inaccessible"
    THEN << [key |-> "name", value |-> "<inaccessible>"] >>
    ELSE << [key |-> "name", value |-> "machine"], [key |-> "VMState", value |-> v] >>

\* What vbmOutErr("showvminfo", ...) can return: the command can fail for any
\* reason; stderr matches reMachineNotFound only when the machine is not registered.
ShowVMInfo ==
    { [failed |-> TRUE, notFound |-> FALSE, stdout |-> << >>] } \cup
    ( IF vm = Absent
      THEN { [failed |-> TRUE, notFound |-> TRUE, stdout |-> << >>] }
      ELSE { [failed |-> FALSE, notFound |-> FALSE, stdout |-> Stdout(vm)] } )

\* (mutant) a machine that does not exist is an error like any other
GetStateNoNotFound(out) ==
    IF out.failed
    THEN [st |-> Error, err |-> ErrCommand]
    ELSE LET groups == SelectSeq(out.stdout, LAMBDA l : l.key = "VMState") IN
         IF Len(groups) < 1 THEN [st |-> None, err |-> Nil]
         ELSE LET tok == groups[1].value IN
              IF tok = "running" THEN [st |-> Running, err |-> Nil]
              ELSE IF tok = "paused" THEN [st |-> Paused, err |-> Nil]
              ELSE IF tok = "saved" THEN [st |-> Saved, err |-> Nil]
              ELSE IF tok \in {"poweroff", "aborted"} THEN [st |-> Stopped, err |-> Nil]
              ELSE [st |-> None, err |-> Nil]

\* (mutant) the switch has no case for "aborted"
GetStateNoAborted(out) ==
    IF out.failed
    THEN IF out.notFound THEN [st |-> Error, err |-> ErrMachineNotExist]
                         ELSE [st |-> Error, err |-> ErrCommand]
    ELSE LET groups == SelectSeq(out.stdout, LAMBDA l : l.key = "VMState") IN
         IF Len(groups) < 1 THEN [st |-> None, err |-> Nil]
         ELSE LET tok == groups[1].value IN
              IF tok = "running" THEN [st |-> Running, err |-> Nil]
              ELSE IF tok = "paused" THEN [st |-> Paused, err |-> Nil]
              ELSE IF tok = "saved" THEN [st |-> Saved, err |-> Nil]
              ELSE IF tok = "poweroff" THEN [st |-> Stopped, err |-> Nil]
              ELSE [st |-> None, err |-> Nil]

GetState(out) ==
    IF out.failed
    THEN IF out.notFound THEN [st |-> Error, err |-> ErrMachineNotExist]
                         ELSE [st |-> Error, err |-> ErrCommand]
    ELSE LET groups == SelectSeq(out.stdout, LAMBDA l : l.key = "VMState") IN
         IF Len(groups) < 1 THEN [st |-> None, err |-> Nil]
         ELSE LET tok == groups[1].value IN
              IF tok = "running" THEN [st |-> Running, err |-> Nil]
              ELSE IF tok = "paused" THEN [st |-> Paused, err |-> Nil]
              ELSE IF tok = "saved" THEN [st |-> Saved, err |-> Nil]
              ELSE IF tok \in {"poweroff", "aborted"} THEN [st |-> Stopped, err |-> Nil]
              ELSE [st |-> None, err |-> Nil]

\* Commands addressed to this machine fail when it is not registered;
\* createvm fails when it already is. Any command may fail otherwise.
MachineCommands ==
    {"startvm", "resume", "resume_headless", "acpipowerbutton", "reset", "poweroff",
     "unregistervm", "modifyvm_nic2", "natpf_delete", "natpf_add", "modifyvm_base",
     "modifyvm_nic1", "storagectl", "storageattach_dvd", "storageattach_hdd",
     "guestproperty_prefix", "guestproperty_dir", "sharedfolder_add", "setextradata"}

\* the NAT rule setPortForwarding(d, 1, "ssh", "tcp", 22, port) installs
SSHRule(port) ==
    [name |-> "ssh", proto |-> "tcp", hostip |-> "127.0.0.1", hostport |-> port,
     guestport |-> GuestSSHPort]

HasRule(name) == \E r \in natpf : r.name = name

\* A rule can be deleted only if it exists, and added only if none has its name.
Outcomes(c) ==
    IF c = "createvm" THEN (IF vm = Absent THEN BOOLEAN ELSE {FALSE})
    ELSE IF c \in MachineCommands /\ vm = Absent THEN {FALSE}
    ELSE IF c = "natpf_delete" /\ ~HasRule("ssh") THEN {FALSE}
    ELSE IF c = "natpf_add" /\ HasRule("ssh") THEN {FALSE}
    ELSE BOOLEAN

\* The machine's state after command c succeeded
VmAfter(c) ==
    IF c \in {"startvm", "resume", "resume_headless", "reset"} THEN "running"
    ELSE IF c \in {"poweroff", "createvm"} THEN "poweroff"
    ELSE IF c = "unregistervm" THEN Absent
    ELSE vm

\* Host-only adapters
NilAdapter == [name |-> 0, ip |-> ZeroIP, mask |-> 0]

Matches(n, ip, mask) == n.ip = ip /\ n.mask = mask

getHostOnlyAdapter(nets, ip, mask) ==
    LET found == SelectSeq(nets, LAMBDA n : Matches(n, ip, mask)) IN
    IF Len(found) = 0 THEN NilAdapter ELSE found[1]

\* the adapter table with the IPv4 configuration of adapter `name` rewritten
WithIPv4(tbl, name, ip, mask) ==
    [k \in 1..Len(tbl) |->
        IF tbl[k].name = name THEN [tbl[k] EXCEPT !.ip = ip, !.mask = mask] ELSE tbl[k]]

\* The known corruption: the address of the adapter attached to the machine
\* is wiped out when the machine starts.
Corrupted(tbl) == WithIPv4(tbl, nic2, ZeroIP, 0)

-----------------------------------------------------------------------------
(* Bookkeeping of calls *)

Functions == {"PreCreateCheck", "Create", "CreateVM", "Start", "Stop", "Restart", "Kill",
              "Remove"}

NoLoc == [i |-> 0, adapter |-> NilAdapter, dhcpAddr |-> ZeroIP, port |-> 0, plan |-> << >>]
NoPoll == [st |-> NoRet, err |-> NoRet]
NoRets == [f \in Functions |-> NoRet]
NoLines == [err |-> NoRet, lines |-> << >>]
NoProbe == [fn |-> NoRet, in |-> << >>, out |-> << >>, done |-> FALSE]

\* An event of trace: call c was made and succeeded or not; note tells apart
\* the failures that the code tells apart.
EvNote(c, ok, note) == [c |-> c, ok |-> ok, note |-> note]
Ev(c, ok) == EvNote(c, ok, "")
Emit(c, ok) == trace' = Append(trace, Ev(c, ok))
\* the event of a state query with outcome out
Query(out) ==
    EvNote("showvminfo", ~out.failed, IF out.notFound THEN "notfound" ELSE "")
\* the entry of a function of the driver
Entered(fn) == Ev(fn, TRUE)

\* function fn returns val to the position on top of the stack
Return(fn, val) ==
    /\ rets' = [rets EXCEPT ![fn] = val]
    /\ pc' = Head(stack)
    /\ stack' = Tail(stack)

\* call of a function, to come back at position `back`
Invoke(entry, back) ==
    /\ pc' = entry
    /\ stack' = <<back>> \o stack
    /\ UNCHANGED rets

Goto(l) == pc' = l /\ UNCHANGED <<stack, rets>>

-----------------------------------------------------------------------------
(* Pure functions of the driver *)

\* A log line is modelled by the set of diagnostic substrings it contains.
VTXDisabled == "VT-x is disabled"
NoHWVirt    == "the host CPU does NOT support HW virtualization"
VMXUnable   == "VERR_VMX_UNABLE_TO_START_VM"

LogLineKinds == { {}, {VTXDisabled}, {NoHWVirt}, {VMXUnable} }

Logs == UNION { [1..n -> LogLineKinds] : n \in 0..MaxLogLines }

Contains(line, sub) == sub \in line

\* (mutant) the third diagnostic is not looked for
LineShowsVTXDisabledTwo(line) ==
    \/ Contains(line, VTXDisabled)
    \/ Contains(line, NoHWVirt)

\* the body of the loop of IsVTXDisabledInTheVM
LineShowsVTXDisabled(line) ==
    \/ Contains(line, VTXDisabled)
    \/ Contains(line, NoHWVirt)
    \/ Contains(line, VMXUnable)

\* IsVTXDisabledInTheVM, given what logsReader.Read returned
IsVTXDisabledInTheVM(read) ==
    IF read.err # Nil THEN [disabled |-> TRUE, err |-> read.err]
    ELSE [disabled |-> \E k \in 1..Len(read.lines) : LineShowsVTXDisabled(read.lines[k]),
          err |-> Nil]

\* net.Listen("tcp4", "127.0.0.1:<port>") while the ports in `busy` are bound by
\* others; for port 0 the system picks `pick`
Ports == 1..MaxPort

Listen(port, busy, pick) ==
    IF port < 0 \/ port \in busy THEN [err |-> ErrListen, p |-> 0]
    ELSE IF port = 0
         THEN (IF pick \in busy THEN [err |-> ErrListen, p |-> 0]
                                ELSE [err |-> Nil, p |-> pick])
         ELSE [err |-> Nil, p |-> port]

RECURSIVE tcpPortLoop(_, _, _, _)
tcpPortLoop(i, port, busy, pick) ==
    IF i > PortTries THEN [err |-> ErrListen, port |-> 0]
    ELSE LET l == Listen(port, busy, pick) IN
         IF l.err # Nil THEN [err |-> l.err, port |-> 0]
         ELSE IF l.p # 0 THEN [err |-> Nil, port |-> l.p]
         ELSE tcpPortLoop(i + 1, 0, busy, pick)

getAvailableTCPPort(port, busy, pick) == tcpPortLoop(0, port, busy, pick)

\* values d.randomInter.RandomInt(n) can return
RandomInts(n) == 0..(Min(n, RandBound) - 1)

\* (mutant) the lease pool is laid around the address of the server
dhcpServerAroundServer(dhcpAddr, network) ==
    [IPv4 |-> [IP |-> dhcpAddr, Mask |-> network.Mask],
     LowerIP |-> <<dhcpAddr[1], dhcpAddr[2], dhcpAddr[3], dhcpAddr[4] + DHCPLower>>,
     UpperIP |-> <<dhcpAddr[1], dhcpAddr[2], dhcpAddr[3], DHCPUpper>>,
     Enabled |-> TRUE]

\* the DHCP server setupHostOnlyNetwork asks for
dhcpServer(dhcpAddr, network) ==
    LET nAddr == network.IP IN
    [IPv4 |-> [IP |-> dhcpAddr, Mask |-> network.Mask],
     LowerIP |-> <<nAddr[1], nAddr[2], nAddr[3], DHCPLower>>,
     UpperIP |-> <<nAddr[1], nAddr[2], nAddr[3], DHCPUpper>>,
     Enabled |-> TRUE]

\* the steps of CreateVM, in order
CreateVMPlan(importVM, shared) ==
    <<"CopyIsoToMachineDir">>
    \o (IF importVM # ""
        THEN <<"poweroff_import", "getVMDiskInfo", "stat_disk", "clonehd",
               "getVMInfo", "CopyFile">>
        ELSE <<"sshKeyGenerate", "diskCreate">>)
    \o <<"createvm", "modifyvm_base", "modifyvm_nic1", "storagectl",
         "storageattach_dvd", "storageattach_hdd", "guestproperty_prefix",
         "guestproperty_dir">>
    \o (IF shared THEN <<"stat_share", "sharedfolder_add", "setextradata">> ELSE << >>)

\* (mutant) the error of clonehd is discarded too
ErrorIgnoredClone(c) == c \in {"poweroff_import", "clonehd"}

\* the steps of CreateVM whose error is discarded
ErrorIgnored(c) == c = "poweroff_import"

-----------------------------------------------------------------------------
(* Initial states: a driver as NewDriver builds it, for a machine and a host *)
(* in any state a previous run can have left them in                        *)

InitialAdapters ==
    { << >>,
      << [name |-> 1, ip |-> defaultHostOnlyCIDR.ip, mask |-> defaultHostOnlyCIDR.bits] >>,
      << [name |-> 1, ip |-> ZeroIP, mask |-> 0] >> }

Init ==
    /\ vm \in VMStates \cup {Absent}
    /\ adapters \in InitialAdapters
    /\ nic2 \in {0} \cup (IF vm = Absent THEN {} ELSE {adapters[k].name : k \in 1..Len(adapters)})
    /\ \E p \in {0, 1} :
          /\ SSHPort = p
          /\ natpf = IF p = 0 \/ vm = Absent THEN {} ELSE {SSHRule(p)}
    /\ HostOnlyCIDR = defaultHostOnlyCIDR
    /\ Boot2DockerImportVM = ""
    /\ NoShare = FALSE
    /\ NoVTXCheck = FALSE
    /\ IPAddress \in {"", "192.168.99.100"}
    /\ op = "idle"
    /\ pc = "idle"
    /\ stack = << >>
    /\ s = NoRet
    /\ hostOnlyAdapter = NilAdapter
    /\ currentState = NoRet
    /\ rs = NoRet
    /\ loc = NoLoc
    /\ lines = NoLines
    /\ lastPoll = NoPoll
    /\ polls = 0
    /\ rets = NoRets
    /\ trace = << >>
    /\ prevRemoved = FALSE
    /\ probe = NoProbe
    /\ inst = << >>

-----------------------------------------------------------------------------
(* The caller: configuration, call of an operation, end of the call *)

CIDRFlags == { defaultHostOnlyCIDR, EmptyCIDR, BadCIDR, CIDR(<<192, 168, 99, 0>>, 24) }

\* the flag sets tried: every CIDR, with the defaults of the other flags or
\* with all of them set
FlagSets ==
    { [cidr |-> c, importVM |-> o.importVM, noShare |-> o.set, noVTXCheck |-> o.set] :
        c \in CIDRFlags,
        o \in { [importVM |-> "", set |-> FALSE], [importVM |-> "b2d", set |-> TRUE] } }

SetConfigFromFlags ==
    /\ op = "idle"
    /\ \E flags \in FlagSets :
          /\ HostOnlyCIDR' = flags.cidr
          /\ Boot2DockerImportVM' = flags.importVM
          /\ NoShare' = flags.noShare
          /\ NoVTXCheck' = flags.noVTXCheck
    /\ UNCHANGED <<hyper, IPAddress, SSHPort, op, pc, stack, locals, rets, trace, prevRemoved,
                   other>>

Call(o, entry) ==
    /\ op = "idle"
    /\ op' = o
    /\ pc' = entry
    /\ stack' = <<"done">>
    /\ trace' = << Entered(o) >>
    /\ UNCHANGED <<hyper, config, IPAddress, SSHPort, locals, rets, prevRemoved, other>>

CallCreate  == Call("Create", "Create_CreateVM")
CallStart   == Call("Start", "Start_GetState")
CallStop    == Call("Stop", "Stop_GetState")
CallRestart == Call("Restart", "Restart_reset")
CallKill    == Call("Kill", "Kill_poweroff")
CallRemove  == Call("Remove", "Remove_GetState")

Finish ==
    /\ pc = "done"
    /\ op' = "idle"
    /\ pc' = "idle"
    /\ stack' = << >>
    /\ prevRemoved' = (op = "Remove" /\ rets["Remove"] = Nil)
    /\ s' = NoRet
    /\ hostOnlyAdapter' = NilAdapter
    /\ currentState' = NoRet
    /\ rs' = NoRet
    /\ loc' = NoLoc
    /\ lines' = NoLines
    /\ lastPoll' = NoPoll
    /\ polls' = 0
    /\ rets' = NoRets
    /\ trace' = << >>
    /\ UNCHANGED <<hyper, config, IPAddress, SSHPort, other>>

(* The environment: the guest shuts down or crashes *)
GuestShutdown ==
    /\ vm = "running"
    /\ vm' = "poweroff"
    /\ UNCHANGED <<adapters, nic2, natpf, config, IPAddress, SSHPort, op, pc, stack,
                   locals, rets, trace, prevRemoved, other>>

-----------------------------------------------------------------------------
(* Start *)

\* (mutant) the switch boots every machine that is not paused
StartSwitchBootsAny(st) == IF st = Paused THEN "Start_resume" ELSE "spf_port"

\* (mutant) with the option set, a machine that needs no boot and no resume
\* has its log left unread
StartSwitchHonoursNoVTXCheck(st) ==
    IF st \in {Stopped, Saved} THEN "spf_port"
    ELSE IF st = Paused THEN "Start_resume"
    ELSE IF NoVTXCheck THEN "Start_ipwait"
    ELSE "Start_vtx"

\* the switch of Start on the state read
StartSwitch(st) ==
    IF st \in {Stopped, Saved} THEN "spf_port"
    ELSE IF st = Paused THEN "Start_resume"
    ELSE "Start_vtx"

\* (mutant) Start never provisions the host-only network
StartDispatchSkipsNetwork(st) == StartSwitch(st)

\* (mutant) a saved machine gets its host-only network provisioned as well
StartDispatchProvisionsSaved(st) ==
    IF st \in {Stopped, Saved} THEN "shn_parse" ELSE StartSwitch(st)

\* where Start goes once it has read state st
StartDispatch(st) == IF st = Stopped THEN "shn_parse" ELSE StartSwitch(st)

StartGetState ==
    /\ pc = "Start_GetState"
    /\ \E out \in ShowVMInfo :
         LET g == GetState(out) IN
         /\ trace' = Append(trace, Query(out))
         /\ IF g.err # Nil
            THEN Return("Start", g.err) /\ s' = s
            ELSE s' = g.st /\ Goto(StartDispatch(g.st))
    /\ UNCHANGED <<hyper, fixed, IPAddress, SSHPort, hostOnlyAdapter, currentState, rs,
                   loc, lines, lastPoll, polls>>

(* setupHostOnlyNetwork, called by Start; its error is wrapped by Start *)

\* the CIDR setupHostOnlyNetwork parses: the default stands in for ""
SetupCIDR ==
    parseAndValidateCIDR(IF HostOnlyCIDR = EmptyCIDR THEN defaultHostOnlyCIDR
                         ELSE HostOnlyCIDR)

ShnParse ==
    /\ pc = "shn_parse"
    /\ IF SetupCIDR.err # Nil
       THEN Return("Start", ErrSetupNetwork)
       ELSE Goto("shn_getOrCreate")
    /\ UNCHANGED <<hyper, fixed, IPAddress, SSHPort, locals, trace>>

\* (mutant) the new adapter is returned with ip and mask, but its configuration
\* is not saved to the host
getOrCreateHostOnlyNetworkNoSave(ip, mask, nets) ==
    LET found == getHostOnlyAdapter(nets, ip, mask)
        new   == [name |-> Len(nets) + 1, ip |-> ip, mask |-> mask]
    IN IF found # NilAdapter
       THEN [adapter |-> found, nets |-> nets]
       ELSE [adapter |-> new, nets |-> Append(nets, [new EXCEPT !.ip = ZeroIP, !.mask = 0])]

\* getOrCreateHostOnlyNetwork on the adapter table nets: the adapter matching
\* ip and mask, or a new one configured with them, and the table afterwards
getOrCreateHostOnlyNetwork(ip, mask, nets) ==
    LET found == getHostOnlyAdapter(nets, ip, mask)
        new   == [name |-> Len(nets) + 1, ip |-> ip, mask |-> mask]
    IN IF found # NilAdapter
       THEN [adapter |-> found, nets |-> nets]
       ELSE [adapter |-> new, nets |-> Append(nets, new)]

\* it fails when the hypervisor fails, which it does when asked for one adapter
\* too many
GetOrCreateOutcomes(ip, mask) ==
    IF Len(getOrCreateHostOnlyNetwork(ip, mask, adapters).nets) <= MaxAdapters
    THEN BOOLEAN ELSE {FALSE}

ShnGetOrCreate ==
    /\ pc = "shn_getOrCreate"
    /\ LET ip   == SetupCIDR.ip
           mask == SetupCIDR.network.Mask
           got  == getOrCreateHostOnlyNetwork(ip, mask, adapters)
       IN \E ok \in GetOrCreateOutcomes(ip, mask) :
            /\ Emit("getOrCreateHostOnlyNetwork", ok)
            /\ IF ~ok
               THEN Return("Start", ErrSetupNetwork) /\ UNCHANGED <<adapters, loc>>
               ELSE /\ Goto("shn_removeOrphan")
                    /\ loc' = [loc EXCEPT !.adapter = got.adapter]
                    /\ adapters' = got.nets
    /\ UNCHANGED <<vm, nic2, natpf, fixed, IPAddress, SSHPort, s, hostOnlyAdapter,
                   currentState, rs, lines, lastPoll, polls>>

\* (mutant) the error of removeOrphanDHCPServers is dropped
ShnRemoveOrphanIgnoresError ==
    /\ pc = "shn_removeOrphan"
    /\ \E ok \in BOOLEAN :
         /\ Emit("removeOrphanDHCPServers", ok)
         /\ Goto("shn_random")
    /\ UNCHANGED <<hyper, fixed, IPAddress, SSHPort, locals>>

ShnRemoveOrphan ==
    /\ pc = "shn_removeOrphan"
    /\ \E ok \in BOOLEAN :
         /\ Emit("removeOrphanDHCPServers", ok)
         /\ IF ok THEN Goto("shn_random") ELSE Return("Start", ErrSetupNetwork)
    /\ UNCHANGED <<hyper, fixed, IPAddress, SSHPort, locals>>

\* (mutant) the value drawn is taken even when it is the host's last octet
ShnRandomTakesAny ==
    /\ pc = "shn_random"
    /\ LET nAddr == SetupCIDR.ip IN
       \E n \in RandomInts(RandomRange) :
         /\ loc' = [loc EXCEPT !.i = 0, !.dhcpAddr = <<nAddr[1], nAddr[2], nAddr[3], n>>]
         /\ Emit("getRandomIPinSubnet", TRUE)
         /\ Goto("shn_addDHCP")
    /\ UNCHANGED <<hyper, fixed, IPAddress, SSHPort, s, hostOnlyAdapter, currentState, rs,
                   lines, lastPoll, polls>>

\* one turn of the loop of getRandomIPinSubnet; loc.i counts the turns made
\* before this one, and stays at RandomTries when the function has failed
ShnRandom ==
    /\ pc = "shn_random"
    /\ LET nAddr == SetupCIDR.ip IN
       \E n \in RandomInts(RandomRange) :
         IF n # nAddr[4]
         THEN /\ loc' = [loc EXCEPT !.i = 0,
                                    !.dhcpAddr = <<nAddr[1], nAddr[2], nAddr[3], n>>]
              /\ Emit("getRandomIPinSubnet", TRUE)
              /\ Goto("shn_addDHCP")
         ELSE IF loc.i + 1 < RandomTries
              THEN loc' = [loc EXCEPT !.i = loc.i + 1] /\ Goto("shn_random")
                   /\ trace' = trace
              ELSE /\ loc' = [loc EXCEPT !.i = RandomTries]
                   /\ trace' = Append(trace, EvNote("getRandomIPinSubnet", FALSE,
                                                    ErrUnableToGenerateRandomIP))
                   /\ Return("Start", ErrSetupNetwork)
    /\ UNCHANGED <<hyper, fixed, IPAddress, SSHPort, s, hostOnlyAdapter, currentState, rs,
                   lines, lastPoll, polls>>

\* addHostOnlyDHCPServer(hostOnlyAdapter.Name, dhcp, ...): the event keeps the
\* adapter and the server asked for
ShnAddDHCP ==
    /\ pc = "shn_addDHCP"
    /\ \E ok \in BOOLEAN :
         /\ trace' = Append(trace,
                EvNote("addHostOnlyDHCPServer", ok,
                       [adapter |-> loc.adapter.name,
                        dhcp |-> dhcpServer(loc.dhcpAddr, SetupCIDR.network)]))
         /\ IF ok THEN Goto("shn_modifyvm") ELSE Return("Start", ErrSetupNetwork)
    /\ loc' = [loc EXCEPT !.dhcpAddr = ZeroIP]
    /\ UNCHANGED <<hyper, fixed, IPAddress, SSHPort, s, hostOnlyAdapter, currentState, rs,
                   lines, lastPoll, polls>>

ShnModifyVM ==
    /\ pc = "shn_modifyvm"
    /\ \E ok \in Outcomes("modifyvm_nic2") :
         /\ Emit("modifyvm_nic2", ok)
         /\ IF ok
            THEN /\ nic2' = loc.adapter.name
                 /\ hostOnlyAdapter' = loc.adapter
                 /\ Goto(StartSwitch(s))
            ELSE /\ Return("Start", ErrSetupNetwork)
                 /\ UNCHANGED <<nic2, hostOnlyAdapter>>
    /\ UNCHANGED <<vm, adapters, natpf, fixed, IPAddress, SSHPort, s, currentState, rs,
                   loc, lines, lastPoll, polls>>

(* setPortForwarding, called by Start, which stores its result in d.SSHPort *)

SpfPort ==
    /\ pc = "spf_port"
    /\ \E busy \in SUBSET Ports, pick \in Ports :
         LET r == getAvailableTCPPort(SSHPort, busy, pick) IN
         /\ Emit("getAvailableTCPPort", r.err = Nil)
         /\ IF r.err # Nil
            THEN SSHPort' = -1 /\ loc' = loc /\ Return("Start", r.err)
            ELSE SSHPort' = SSHPort /\ loc' = [loc EXCEPT !.port = r.port]
                 /\ Goto("spf_delete")
    /\ UNCHANGED <<hyper, fixed, IPAddress, s, hostOnlyAdapter, currentState, rs,
                   lines, lastPoll, polls>>

\* d.vbm("modifyvm", ..., "delete", mapName): the error is not looked at
SpfDelete ==
    /\ pc = "spf_delete"
    /\ \E ok \in Outcomes("natpf_delete") :
         /\ Emit("natpf_delete", ok)
         /\ natpf' = IF ok THEN {r \in natpf : r.name # "ssh"} ELSE natpf
         /\ Goto("spf_add")
    /\ UNCHANGED <<vm, adapters, nic2, fixed, IPAddress, SSHPort, locals>>

SpfAdd ==
    /\ pc = "spf_add"
    /\ \E ok \in Outcomes("natpf_add") :
         /\ Emit("natpf_add", ok)
         /\ IF ok
            THEN /\ natpf' = natpf \cup {SSHRule(loc.port)}
                 /\ SSHPort' = loc.port
                 /\ Goto("Start_startvm")
            ELSE /\ SSHPort' = -1
                 /\ natpf' = natpf
                 /\ Return("Start", ErrCommand)
    /\ UNCHANGED <<vm, adapters, nic2, fixed, IPAddress, locals>>

\* d.vbm("startvm", ..., "--type", "headless"), then on to `next`
StartVM(next) ==
    \E ok \in Outcomes("startvm"), corrupt \in BOOLEAN :
        /\ Emit("startvm", ok)
        /\ IF ok
           THEN /\ vm' = VmAfter("startvm")
                /\ adapters' = IF corrupt THEN Corrupted(adapters) ELSE adapters
                /\ Goto(next)
           ELSE /\ ~corrupt
                /\ UNCHANGED <<vm, adapters>>
                /\ Return("Start", ErrUnableStart)

StartStartVM ==
    /\ pc = "Start_startvm"
    /\ StartVM("Start_vtx")
    /\ UNCHANGED <<nic2, natpf, fixed, IPAddress, SSHPort, locals>>

StartResume ==
    /\ pc = "Start_resume"
    /\ \E ok \in Outcomes("resume_headless") :
         /\ Emit("resume_headless", ok)
         /\ IF ok
            THEN vm' = VmAfter("resume_headless") /\ Goto("Start_vtx")
            ELSE vm' = vm /\ Return("Start", ErrCommand)
    /\ UNCHANGED <<adapters, nic2, natpf, fixed, IPAddress, SSHPort, locals>>

\* what d.logsReader.Read can return
LogReads == { [err |-> ErrCollab, lines |-> << >>] } \cup { [err |-> Nil, lines |-> l] : l \in Logs }

StartVTX ==
    /\ pc = "Start_vtx"
    /\ \E read \in LogReads :
         LET v == IsVTXDisabledInTheVM(read) IN
         /\ lines' = read
         /\ Emit("logsReader.Read", read.err = Nil)
         /\ IF v.err # Nil THEN Return("Start", ErrCheckingVTX)
            ELSE IF v.disabled THEN Return("Start", ErrMustEnableVTX)
            ELSE Goto("Start_ipwait")
    /\ UNCHANGED <<hyper, fixed, IPAddress, SSHPort, s, hostOnlyAdapter, currentState, rs,
                   loc, lastPoll, polls>>

\* d.ipWaiter.Wait(d): it succeeds only for a machine that is running (GetIP)
IPWaits == IF vm = "running" THEN BOOLEAN ELSE {FALSE}

StartIPWait ==
    /\ pc = "Start_ipwait"
    /\ \E ok \in IPWaits :
         /\ Emit("ipWaiter.Wait", ok)
         /\ IF ~ok THEN Return("Start", ErrIPWait)
            ELSE IF hostOnlyAdapter = NilAdapter THEN Return("Start", Nil)
            ELSE Goto("Start_list")
    /\ UNCHANGED <<hyper, fixed, IPAddress, SSHPort, locals>>

\* the check of the adapter after the boot
StartList ==
    /\ pc = "Start_list"
    /\ \E ok \in BOOLEAN :
         LET p == parseAndValidateCIDR(HostOnlyCIDR) IN
         IF ~ok THEN Emit("listHostOnlyAdapters", FALSE) /\ Return("Start", ErrCommand)
         ELSE IF p.err # Nil
              THEN Emit("listHostOnlyAdapters", TRUE) /\ Return("Start", p.err)
         ELSE IF getHostOnlyAdapter(adapters, p.ip, p.network.Mask) # NilAdapter
              THEN Emit("listHostOnlyAdapters", TRUE) /\ Return("Start", Nil)
         ELSE /\ trace' = trace \o << Ev("listHostOnlyAdapters", TRUE), Entered("Stop") >>
              /\ Invoke("Stop_GetState", "Start_afterStop")
    /\ UNCHANGED <<hyper, fixed, IPAddress, SSHPort, locals>>

\* (mutant) the error of Stop is not looked at
StartAfterStopIgnoresError ==
    /\ pc = "Start_afterStop"
    /\ Emit("Sleep5s", TRUE)
    /\ Goto("Start_SaveIPv4")
    /\ UNCHANGED <<hyper, fixed, IPAddress, SSHPort, locals>>

StartAfterStop ==
    /\ pc = "Start_afterStop"
    /\ IF rets["Stop"] # Nil
       THEN Return("Start", rets["Stop"]) /\ trace' = trace
       ELSE Emit("Sleep5s", TRUE) /\ Goto("Start_SaveIPv4")
    /\ UNCHANGED <<hyper, fixed, IPAddress, SSHPort, locals>>

StartSaveIPv4 ==
    /\ pc = "Start_SaveIPv4"
    /\ \E ok \in BOOLEAN :
         IF ok
         THEN /\ adapters' = WithIPv4(adapters, hostOnlyAdapter.name,
                                      hostOnlyAdapter.ip, hostOnlyAdapter.mask)
              /\ trace' = trace \o << Ev("SaveIPv4", TRUE), Ev("Sleep5s", TRUE) >>
              /\ Goto("Start_startvm2")
         ELSE /\ adapters' = adapters
              /\ Emit("SaveIPv4", FALSE)
              /\ Return("Start", ErrCommand)
    /\ UNCHANGED <<vm, nic2, natpf, fixed, IPAddress, SSHPort, locals>>

StartStartVM2 ==
    /\ pc = "Start_startvm2"
    /\ StartVM("Start_ipwait2")
    /\ UNCHANGED <<nic2, natpf, fixed, IPAddress, SSHPort, locals>>

\* (mutant) after the repair, Start validates the adapter again
StartIPWait2Revalidates ==
    /\ pc = "Start_ipwait2"
    /\ \E ok \in IPWaits :
         /\ Emit("ipWaiter.Wait", ok)
         /\ IF ok THEN Goto("Start_list") ELSE Return("Start", ErrIPWait)
    /\ UNCHANGED <<hyper, fixed, IPAddress, SSHPort, locals>>

StartIPWait2 ==
    /\ pc = "Start_ipwait2"
    /\ \E ok \in IPWaits :
         /\ Emit("ipWaiter.Wait", ok)
         /\ Return("Start", IF ok THEN Nil ELSE ErrIPWait)
    /\ UNCHANGED <<hyper, fixed, IPAddress, SSHPort, locals>>

-----------------------------------------------------------------------------
(* Stop *)

\* (mutant) Stop does not resume a paused machine
StopAfterStateNoResume(st) == "Stop_acpi"

\* where Stop goes once it has read state st: a paused machine is resumed first
StopAfterState(st) == IF st = Paused THEN "Stop_resume" ELSE "Stop_acpi"

StopGetState ==
    /\ pc = "Stop_GetState"
    /\ \E out \in ShowVMInfo :
         LET g == GetState(out) IN
         /\ trace' = Append(trace, Query(out))
         /\ IF g.err # Nil
            THEN Return("Stop", g.err) /\ currentState' = currentState
            ELSE currentState' = g.st
                 /\ Goto(StopAfterState(g.st))
    /\ UNCHANGED <<hyper, fixed, IPAddress, SSHPort, s, hostOnlyAdapter, rs, loc, lines,
                   lastPoll, polls>>

StopResume ==
    /\ pc = "Stop_resume"
    /\ \E ok \in Outcomes("resume") :
         /\ Emit("resume", ok)
         /\ IF ok
            THEN vm' = VmAfter("resume") /\ Goto("Stop_acpi")
            ELSE vm' = vm /\ Return("Stop", ErrCommand)
    /\ UNCHANGED <<adapters, nic2, natpf, fixed, IPAddress, SSHPort, locals>>

StopACPI ==
    /\ pc = "Stop_acpi"
    /\ \E ok \in Outcomes("acpipowerbutton") :
         /\ Emit("acpipowerbutton", ok)
         /\ IF ok THEN Goto("Stop_poll") ELSE Return("Stop", ErrCommand)
    /\ UNCHANGED <<hyper, fixed, IPAddress, SSHPort, locals>>

\* (mutant) the loop of Stop ends at its first turn
StillRunningNever(st) == FALSE

\* the test of the loop of Stop
StillRunning(st) == st = Running

\* (mutant) the wait is bounded: Stop gives up after MaxPolls turns
StopPollBounded ==
    /\ pc = "Stop_poll"
    /\ \E out \in ShowVMInfo :
         LET g == GetState(out) IN
         /\ lastPoll' = g
         /\ IF g.err # Nil
            THEN Return("Stop", g.err) /\ UNCHANGED <<polls, IPAddress>>
            ELSE IF StillRunning(g.st)
                 THEN /\ polls' = Min(polls + 1, MaxPolls)
                      /\ IPAddress' = IPAddress
                      /\ IF polls < MaxPolls
                         THEN Goto("Stop_poll")
                         ELSE Return("Stop", ErrCommand)
                 ELSE /\ IPAddress' = ""
                      /\ polls' = polls
                      /\ Return("Stop", Nil)
    /\ UNCHANGED <<hyper, fixed, SSHPort, s, hostOnlyAdapter, currentState, rs, loc, lines,
                   trace>>

\* One turn of the loop of Stop: a state query, then a sleep of one second if
\* the machine is still running. The turns are counted, not logged in trace.
StopPoll ==
    /\ pc = "Stop_poll"
    /\ \E out \in ShowVMInfo :
         LET g == GetState(out) IN
         /\ lastPoll' = g
         /\ IF g.err # Nil
            THEN Return("Stop", g.err) /\ UNCHANGED <<polls, IPAddress>>
            ELSE IF StillRunning(g.st)
                 THEN /\ polls' = Min(polls + 1, MaxPolls)
                      /\ Goto("Stop_poll")
                      /\ IPAddress' = IPAddress
                 ELSE /\ IPAddress' = ""
                      /\ polls' = polls
                      /\ Return("Stop", Nil)
    /\ UNCHANGED <<hyper, fixed, SSHPort, s, hostOnlyAdapter, currentState, rs, loc, lines,
                   trace>>

-----------------------------------------------------------------------------
(* Restart, Kill *)

\* (mutant) the cached IP is cleared before the reset is known to have worked
RestartResetClearsFirst ==
    /\ pc = "Restart_reset"
    /\ \E ok \in Outcomes("reset") :
         /\ Emit("reset", ok)
         /\ IPAddress' = ""
         /\ IF ok
            THEN vm' = VmAfter("reset") /\ Goto("Restart_ipwait")
            ELSE vm' = vm /\ Return("Restart", ErrCommand)
    /\ UNCHANGED <<adapters, nic2, natpf, fixed, SSHPort, locals>>

RestartReset ==
    /\ pc = "Restart_reset"
    /\ \E ok \in Outcomes("reset") :
         /\ Emit("reset", ok)
         /\ IF ok
            THEN /\ vm' = VmAfter("reset")
                 /\ IPAddress' = ""
                 /\ Goto("Restart_ipwait")
            ELSE /\ UNCHANGED <<vm, IPAddress>>
                 /\ Return("Restart", ErrCommand)
    /\ UNCHANGED <<adapters, nic2, natpf, fixed, SSHPort, locals>>

RestartIPWait ==
    /\ pc = "Restart_ipwait"
    /\ \E ok \in IPWaits :
         /\ Emit("ipWaiter.Wait", ok)
         /\ Return("Restart", IF ok THEN Nil ELSE ErrIPWait)
    /\ UNCHANGED <<hyper, fixed, IPAddress, SSHPort, locals>>

KillPoweroff ==
    /\ pc = "Kill_poweroff"
    /\ \E ok \in Outcomes("poweroff") :
         /\ Emit("poweroff", ok)
         /\ vm' = IF ok THEN VmAfter("poweroff") ELSE vm
         /\ Return("Kill", IF ok THEN Nil ELSE ErrCommand)
    /\ UNCHANGED <<adapters, nic2, natpf, fixed, IPAddress, SSHPort, locals>>

-----------------------------------------------------------------------------
(* Remove *)

\* (mutant) Remove kills a machine that is stopped too
RemoveDispatchKillsStopped(st) == IF st = Running THEN "Stop" ELSE "Kill"

\* what Remove calls before unregistering a machine in state st
RemoveDispatch(st) ==
    IF st = Running THEN "Stop"
    ELSE IF st # Stopped THEN "Kill"
    ELSE "none"

RemoveGetState ==
    /\ pc = "Remove_GetState"
    /\ \E out \in ShowVMInfo :
         LET g == GetState(out) IN
         IF g.err # Nil
         THEN /\ trace' = Append(trace, Query(out))
              /\ rs' = rs
              /\ Return("Remove", IF g.err = ErrMachineNotExist THEN Nil ELSE g.err)
         ELSE /\ rs' = g.st
              /\ IF RemoveDispatch(g.st) = "Stop"
                 THEN /\ trace' = trace \o << Query(out), Entered("Stop") >>
                      /\ Invoke("Stop_GetState", "Remove_after")
                 ELSE IF RemoveDispatch(g.st) = "Kill"
                 THEN /\ trace' = trace \o << Query(out), Entered("Kill") >>
                      /\ Invoke("Kill_poweroff", "Remove_after")
                 ELSE /\ trace' = Append(trace, Query(out))
                      /\ Goto("Remove_after")
    /\ UNCHANGED <<hyper, fixed, IPAddress, SSHPort, s, hostOnlyAdapter, currentState, loc,
                   lines, lastPoll, polls>>

\* the error of the Stop or Kill that Remove called, if it called one
RemoveCalleeErr ==
    IF RemoveDispatch(rs) = "none" THEN Nil ELSE rets[RemoveDispatch(rs)]

\* (mutant) Remove goes on to unregister whatever the Stop or Kill returned
RemoveAfterIgnoresError ==
    /\ pc = "Remove_after"
    /\ Emit("Sleep1s", TRUE) /\ Goto("Remove_unregister")
    /\ UNCHANGED <<hyper, fixed, IPAddress, SSHPort, locals>>

RemoveAfter ==
    /\ pc = "Remove_after"
    /\ IF RemoveCalleeErr # Nil
       THEN Return("Remove", RemoveCalleeErr) /\ trace' = trace
       ELSE Emit("Sleep1s", TRUE) /\ Goto("Remove_unregister")
    /\ UNCHANGED <<hyper, fixed, IPAddress, SSHPort, locals>>

RemoveUnregister ==
    /\ pc = "Remove_unregister"
    /\ \E ok \in Outcomes("unregistervm") :
         /\ Emit("unregistervm", ok)
         /\ IF ok
            THEN vm' = VmAfter("unregistervm") /\ nic2' = 0 /\ natpf' = {}
            ELSE UNCHANGED <<vm, nic2, natpf>>
         /\ Return("Remove", IF ok THEN Nil ELSE ErrCommand)
    /\ UNCHANGED <<adapters, fixed, IPAddress, SSHPort, locals>>

-----------------------------------------------------------------------------
(* Create, CreateVM *)

\* what getShareDriveAndName gives as the directory to share, by platform
ShareDirs == {"", "/Users"}

\* the steps of CreateVM that are no VBoxManage command
Collaborators == {"CopyIsoToMachineDir", "stat_disk", "CopyFile", "sshKeyGenerate",
                  "diskCreate", "stat_share"}

CreateCreateVM ==
    /\ pc = "Create_CreateVM"
    /\ \E shareDir \in ShareDirs :
         loc' = [loc EXCEPT !.plan =
                    CreateVMPlan(Boot2DockerImportVM, shareDir # "" /\ ~NoShare)]
    /\ trace' = Append(trace, Entered("CreateVM"))
    /\ Invoke("CreateVM_step", "Create_afterCreateVM")
    /\ UNCHANGED <<hyper, fixed, IPAddress, SSHPort, s, hostOnlyAdapter, currentState, rs,
                   lines, lastPoll, polls>>

\* CreateVM goes on with the steps in `rest`, or returns nil if none is left
CreateVMGoOn(rest) ==
    /\ loc' = [loc EXCEPT !.plan = rest]
    /\ IF rest = << >> THEN Return("CreateVM", Nil) ELSE Goto("CreateVM_step")

\* os.Stat(shareDir): the directory exists, does not exist, or another error
CreateVMStatShare ==
    /\ pc = "CreateVM_step"
    /\ Head(loc.plan) = "stat_share"
    /\ \E r \in {"exists", "notexist", "error"} :
         /\ trace' = Append(trace, EvNote("stat_share", r # "error", r))
         /\ IF r = "error" THEN Return("CreateVM", ErrCollab) /\ loc' = loc
            ELSE IF r = "notexist" THEN CreateVMGoOn(<< >>)
            ELSE CreateVMGoOn(Tail(loc.plan))
    /\ UNCHANGED <<hyper, fixed, IPAddress, SSHPort, s, hostOnlyAdapter, currentState, rs,
                   lines, lastPoll, polls>>

CreateVMStep ==
    /\ pc = "CreateVM_step"
    /\ Head(loc.plan) # "stat_share"
    /\ LET c == Head(loc.plan) IN
       \E ok \in Outcomes(c) :
         /\ Emit(c, ok)
         /\ IF ok /\ c = "createvm"
            THEN vm' = VmAfter("createvm") /\ nic2' = 0 /\ natpf' = {}
            ELSE UNCHANGED <<vm, nic2, natpf>>
         /\ IF ok \/ ErrorIgnored(c)
            THEN CreateVMGoOn(Tail(loc.plan))
            ELSE /\ loc' = loc
                 /\ Return("CreateVM", IF c \in Collaborators THEN ErrCollab ELSE ErrCommand)
    /\ UNCHANGED <<adapters, fixed, IPAddress, SSHPort, s, hostOnlyAdapter, currentState,
                   rs, lines, lastPoll, polls>>

\* (mutant) Create starts the machine whatever CreateVM returned
CreateAfterCreateVMStartsAnyway ==
    /\ pc = "Create_afterCreateVM"
    /\ Emit("Start", TRUE)
    /\ Invoke("Start_GetState", "Create_return")
    /\ UNCHANGED <<hyper, fixed, IPAddress, SSHPort, locals>>

CreateAfterCreateVM ==
    /\ pc = "Create_afterCreateVM"
    /\ IF rets["CreateVM"] # Nil
       THEN Return("Create", rets["CreateVM"]) /\ trace' = trace
       ELSE Emit("Start", TRUE) /\ Invoke("Start_GetState", "Create_return")
    /\ UNCHANGED <<hyper, fixed, IPAddress, SSHPort, locals>>

\* return d.Start()
CreateReturn ==
    /\ pc = "Create_return"
    /\ Return("Create", rets["Start"])
    /\ UNCHANGED <<hyper, fixed, IPAddress, SSHPort, locals, trace>>

-----------------------------------------------------------------------------
Next ==
    \/ SetConfigFromFlags
    \/ CallCreate \/ CallStart \/ CallStop \/ CallRestart \/ CallKill \/ CallRemove
    \/ Finish
    \/ GuestShutdown
    \/ StartGetState
    \/ ShnParse \/ ShnGetOrCreate \/ ShnRemoveOrphan \/ ShnRandom \/ ShnAddDHCP \/ ShnModifyVM
    \/ SpfPort \/ SpfDelete \/ SpfAdd
    \/ StartStartVM \/ StartResume \/ StartVTX \/ StartIPWait \/ StartList
    \/ StartAfterStop \/ StartSaveIPv4 \/ StartStartVM2 \/ StartIPWait2
    \/ StopGetState \/ StopResume \/ StopACPI \/ StopPoll
    \/ RestartReset \/ RestartIPWait
    \/ KillPoweroff
    \/ RemoveGetState \/ RemoveAfter \/ RemoveUnregister
    \/ CreateCreateVM \/ CreateVMStatShare \/ CreateVMStep \/ CreateAfterCreateVM
    \/ CreateReturn

Spec == Init /\ [][Next]_vars

-----------------------------------------------------------------------------
(* Progress. Every call of the driver is synchronous: a command, a sleep or  *)
(* a collaborator that returns lets the driver make its next step. The loop  *)
(* of Stop is left only on an answer of the hypervisor.                      *)

\* a turn of the loop of Stop that leaves it: the state query failed, or
\* reported a state other than Running
StopPollLeaves == StopPoll /\ pc' # "Stop_poll"

\* a turn of the loop of Stop that stays in it: the query reported Running
StopPollStays == StopPoll /\ pc' = "Stop_poll"

\* the steps of the driver outside the loop of Stop
DriverSteps ==
    \/ StartGetState
    \/ ShnParse \/ ShnGetOrCreate \/ ShnRemoveOrphan \/ ShnRandom \/ ShnAddDHCP \/ ShnModifyVM
    \/ SpfPort \/ SpfDelete \/ SpfAdd
    \/ StartStartVM \/ StartResume \/ StartVTX \/ StartIPWait \/ StartList
    \/ StartAfterStop \/ StartSaveIPv4 \/ StartStartVM2 \/ StartIPWait2
    \/ StopGetState \/ StopResume \/ StopACPI
    \/ RestartReset \/ RestartIPWait
    \/ KillPoweroff
    \/ RemoveGetState \/ RemoveAfter \/ RemoveUnregister
    \/ CreateCreateVM \/ CreateVMStatShare \/ CreateVMStep \/ CreateAfterCreateVM
    \/ CreateReturn

\* Every command returns, and the hypervisor ends up answering a state query
\* of the loop of Stop with a failure or a state other than Running.
LiveSpec == Init /\ [][Next]_vars /\ WF_vars(DriverSteps \/ StopPollLeaves)

\* Every command returns and a state query of the loop reports the state of
\* the machine, but nothing makes the guest shut down: the hypervisor is free
\* to report Running for ever.
StubbornSpec ==
    Init /\ [][Next]_vars
         /\ WF_vars(DriverSteps \/ StopPollStays \/ (StopPollLeaves /\ vm # "running"))

-----------------------------------------------------------------------------
(* PreCreateCheck, on a host with or without Hyper-V and with VT-x enabled  *)
(* or not. It reads the host and changes nothing but the boot image cache,  *)
(* which is no state of the driver.                                         *)

\* what the host answers to isHyperVInstalled() and d.IsVTXDisabled()
HostFacts == [hyperV : BOOLEAN, vtxDisabled : BOOLEAN]

PreInit ==
    /\ vm \in {Absent, "poweroff", "running"}
    /\ adapters \in InitialAdapters
    /\ nic2 = 0 /\ natpf = {}
    /\ HostOnlyCIDR = defaultHostOnlyCIDR /\ Boot2DockerImportVM = ""
    /\ NoShare = FALSE
    /\ NoVTXCheck \in BOOLEAN
    /\ IPAddress = "" /\ SSHPort = 0
    /\ op = "idle" /\ pc = "idle" /\ stack = << >>
    /\ s = NoRet /\ hostOnlyAdapter = NilAdapter /\ currentState = NoRet /\ rs = NoRet
    /\ loc = NoLoc /\ lines = NoLines /\ lastPoll = NoPoll /\ polls = 0
    /\ rets = NoRets /\ trace = << >> /\ prevRemoved = FALSE
    /\ probe \in { [fn |-> "PreCreateCheck", in |-> h, out |-> << >>, done |-> FALSE] :
                    h \in HostFacts }
    /\ inst = << >>

CallPreCreateCheck == Call("PreCreateCheck", "Pre_version")

\* a step of PreCreateCheck: a call that succeeds or not, an error to return
\* when it does not, and where to go on when it does
PreStep(at, call, err, next) ==
    /\ pc = at
    /\ \E ok \in BOOLEAN :
         /\ Emit(call, ok)
         /\ IF ok THEN Goto(next) ELSE Return("PreCreateCheck", err)
    /\ UNCHANGED <<hyper, fixed, IPAddress, SSHPort, locals>>

\* a test of the host by PreCreateCheck: the answer, the error to return when
\* it is yes, and where to go on when it is no
PreTest(at, call, answer, err, next) ==
    /\ pc = at
    /\ trace' = Append(trace, EvNote(call, TRUE, IF answer THEN "yes" ELSE "no"))
    /\ IF answer THEN Return("PreCreateCheck", err) ELSE Goto(next)
    /\ UNCHANGED <<hyper, fixed, IPAddress, SSHPort, locals>>

PreVersion == PreStep("Pre_version", "vbm_version", ErrCommand, "Pre_checkVersion")

\* (mutant) the option is not looked at
PreAfterVersionAlwaysChecks == "Pre_hyperv"

\* where PreCreateCheck goes once the version is known to be supported
PreAfterVersion == IF ~NoVTXCheck THEN "Pre_hyperv" ELSE "Pre_updateISO"

PreCheckVersion ==
    PreStep("Pre_checkVersion", "checkVBoxManageVersion", ErrCollab, PreAfterVersion)

PreHyperV ==
    PreTest("Pre_hyperv", "isHyperVInstalled", probe.in.hyperV, ErrNotCompatibleWithHyperV,
            "Pre_vtx")

PreVTX ==
    PreTest("Pre_vtx", "IsVTXDisabled", probe.in.vtxDisabled, ErrMustEnableVTX,
            "Pre_updateISO")

PreUpdateISO == PreStep("Pre_updateISO", "UpdateISOCache", ErrCollab, "Pre_list")

PreList ==
    /\ pc = "Pre_list"
    /\ \E ok \in BOOLEAN :
         /\ Emit("listHostOnlyAdapters", ok)
         /\ Return("PreCreateCheck", IF ok THEN Nil ELSE ErrCommand)
    /\ UNCHANGED <<hyper, fixed, IPAddress, SSHPort, locals>>

PreNext ==
    \/ CallPreCreateCheck
    \/ PreVersion \/ PreCheckVersion \/ PreHyperV \/ PreVTX \/ PreUpdateISO \/ PreList
    \/ Finish

PreSpec == PreInit /\ [][PreNext]_vars

-----------------------------------------------------------------------------
(* The setup of the host-only network by Start, for a stopped machine and *)
(* every host-only CIDR of a set                                          *)

SetupCIDRs ==
    { CIDR(<<a, b, c, d>>, bits) :
        a \in {10, 192}, b \in {0, 168}, c \in {5, 99}, d \in {0, 1, 2, 129},
        bits \in {8, 16, 24, 25, 30} }
    \cup {EmptyCIDR, BadCIDR}

SetupInit ==
    /\ vm \in {"poweroff", "aborted"}
    /\ adapters \in InitialAdapters
    /\ nic2 = 0
    /\ natpf = {}
    /\ HostOnlyCIDR \in SetupCIDRs
    /\ Boot2DockerImportVM = ""
    /\ NoShare = FALSE
    /\ NoVTXCheck = FALSE
    /\ IPAddress = ""
    /\ SSHPort = 0
    /\ op = "idle" /\ pc = "idle" /\ stack = << >>
    /\ s = NoRet /\ hostOnlyAdapter = NilAdapter /\ currentState = NoRet /\ rs = NoRet
    /\ loc = NoLoc /\ lines = NoLines /\ lastPoll = NoPoll /\ polls = 0
    /\ rets = NoRets /\ trace = << >> /\ prevRemoved = FALSE
    /\ probe = NoProbe
    /\ inst = << >>

\* Start up to the return of setupHostOnlyNetwork
SetupNext ==
    \/ CallStart
    \/ StartGetState
    \/ ShnParse \/ ShnGetOrCreate \/ ShnRemoveOrphan \/ ShnRandom \/ ShnAddDHCP \/ ShnModifyVM

SetupSpec == SetupInit /\ [][SetupNext]_vars

-----------------------------------------------------------------------------
(* The pure functions of the driver, each applied to every input of a set *)

\* a driver at rest and no machine registered
Resting ==
    /\ vm = Absent /\ nic2 = 0 /\ natpf = {}
    /\ HostOnlyCIDR = defaultHostOnlyCIDR /\ Boot2DockerImportVM = "" /\ NoShare = FALSE
    /\ NoVTXCheck = FALSE
    /\ IPAddress = "" /\ SSHPort = 0
    /\ op = "idle" /\ pc = "idle" /\ stack = << >>
    /\ s = NoRet /\ hostOnlyAdapter = NilAdapter /\ currentState = NoRet /\ rs = NoRet
    /\ loc = NoLoc /\ lines = NoLines /\ lastPoll = NoPoll /\ polls = 0
    /\ rets = NoRets /\ trace = << >> /\ prevRemoved = FALSE

\* and no adapter on the host
AtRest == Resting /\ adapters = << >>

driver == <<hyper, config, IPAddress, SSHPort, op, pc, stack, locals, rets, trace,
            prevRemoved>>

\* desired ports (SSHPort is -1 after a failed setPortForwarding), the ports
\* other listeners hold, and the port the system would pick
PortInputs ==
    [port : -1..MaxPort, busy : SUBSET Ports, pick : Ports]

\* octets and CIDR strings tried
OctetInputs == {0, 1, 5, 10, 129, 255}
CIDRInputs ==
    { CIDR(<<a, b, c, d>>, bits) :
        a \in {10, 192}, b \in {0, 168}, c \in OctetInputs, d \in OctetInputs,
        bits \in 0..32 }
    \cup {EmptyCIDR, BadCIDR}

\* outputs of showvminfo tried: the command failed or not, stderr matches
\* reMachineNotFound or not, and up to LinesTried lines of stdout
StdoutLines ==
    { [key |-> "name", value |-> "machine"] } \cup
    { [key |-> "VMState", value |-> v] : v \in VMTokens }
ShowInputs ==
    [failed : BOOLEAN, notFound : BOOLEAN,
     stdout : UNION { [1..n -> StdoutLines] : n \in 0..2 }]

Probes(fn, inputs) == { [fn |-> fn, in |-> x, out |-> << >>, done |-> FALSE] : x \in inputs }

PureInit ==
    /\ AtRest
    /\ inst = << >>
    /\ probe \in Probes("getAvailableTCPPort", PortInputs)
                  \cup Probes("parseAndValidateCIDR", CIDRInputs)
                  \cup Probes("GetState", ShowInputs)

Apply(fn, out) ==
    /\ probe.fn = fn
    /\ ~probe.done
    /\ probe' = [probe EXCEPT !.out = out, !.done = TRUE]
    /\ UNCHANGED <<driver, inst>>

ApplyGetAvailableTCPPort ==
    Apply("getAvailableTCPPort",
          getAvailableTCPPort(probe.in.port, probe.in.busy, probe.in.pick))

ApplyParseAndValidateCIDR ==
    Apply("parseAndValidateCIDR", parseAndValidateCIDR(probe.in))

ApplyGetState == Apply("GetState", GetState(probe.in))

PureNext ==
    \/ ApplyGetAvailableTCPPort
    \/ ApplyParseAndValidateCIDR
    \/ ApplyGetState

PureSpec == PureInit /\ [][PureNext]_vars

-----------------------------------------------------------------------------
(* Several drivers, one per machine, each in its own process, finding or    *)
(* creating their host-only adapter in the adapter table of the host. Each   *)
(* step is one command of getOrCreateHostOnlyNetwork, which holds no lock.   *)

\* the CIDRs the machines are configured with
SharedCIDRs == { defaultHostOnlyCIDR, CIDR(<<10, 0, 5, 1>>, 24) }

Instances == 1..MaxInstances

NoInstance(c) == [pc |-> "idle", cidr |-> c, nets |-> << >>, adapter |-> NilAdapter]

ConcInit ==
    /\ Resting
    /\ adapters \in InitialAdapters
    /\ probe = NoProbe
    /\ inst \in [Instances -> { NoInstance(c) : c \in SharedCIDRs }]

\* the steps of an instance change nothing but the adapter table and itself
ConcFrame ==
    UNCHANGED <<vm, nic2, natpf, config, IPAddress, SSHPort, op, pc, stack, locals, rets,
                trace, prevRemoved, probe>>

\* Start of a stopped machine reaches getOrCreateHostOnlyNetwork
ConcBegin(i) ==
    /\ inst[i].pc = "idle"
    /\ inst' = [inst EXCEPT ![i].pc = "list"]
    /\ adapters' = adapters
    /\ ConcFrame

\* listHostOnlyAdapters, then getHostOnlyAdapter on the list read
ConcList(i) ==
    /\ inst[i].pc = "list"
    /\ LET p     == parseAndValidateCIDR(inst[i].cidr)
           found == getHostOnlyAdapter(adapters, p.ip, p.network.Mask)
       IN inst' = [inst EXCEPT ![i].nets = adapters,
                               ![i].adapter = found,
                               ![i].pc = IF found # NilAdapter THEN "found" ELSE "create"]
    /\ adapters' = adapters
    /\ ConcFrame

\* no adapter of the list matched: a new adapter is created, not configured yet
ConcCreate(i) ==
    /\ inst[i].pc = "create"
    /\ IF Len(adapters) < MaxAdapters
       THEN LET p == parseAndValidateCIDR(inst[i].cidr)
                name == Len(adapters) + 1
            IN /\ adapters' = Append(adapters, [name |-> name, ip |-> ZeroIP, mask |-> 0])
               /\ inst' = [inst EXCEPT ![i].pc = "config",
                                       ![i].adapter = [name |-> name, ip |-> p.ip,
                                                       mask |-> p.network.Mask]]
       ELSE /\ adapters' = adapters
            /\ inst' = [inst EXCEPT ![i].pc = "failed"]
    /\ ConcFrame

\* the new adapter is given the address and the mask (SaveIPv4)
ConcConfig(i) ==
    /\ inst[i].pc = "config"
    /\ adapters' = WithIPv4(adapters, inst[i].adapter.name, inst[i].adapter.ip,
                            inst[i].adapter.mask)
    /\ inst' = [inst EXCEPT ![i].pc = "created"]
    /\ ConcFrame

\* the call ends; the machine can be started again later
ConcEnd(i) ==
    /\ inst[i].pc \in {"found", "created", "failed"}
    /\ inst' = [inst EXCEPT ![i] = NoInstance(inst[i].cidr)]
    /\ adapters' = adapters
    /\ ConcFrame

ConcNext ==
    \E i \in Instances :
        \/ ConcBegin(i)
        \/ ConcList(i)
        \/ ConcCreate(i)
        \/ ConcConfig(i)
        \/ ConcEnd(i)

ConcSpec == ConcInit /\ [][ConcNext]_vars

-----------------------------------------------------------------------------
(* getOrCreateHostOnlyNetwork called twice in sequence, by one driver, with  *)
(* the same address and mask, on a host with any adapter table               *)

\* the addresses and masks asked for
FindTargets ==
    { [ip |-> c.ip, mask |-> parseAndValidateCIDR(c).network.Mask] :
        c \in SharedCIDRs \cup { CIDR(<<192, 168, 99, 1>>, 16) } }

\* the configurations an adapter of the host can have: one of those asked for,
\* or none
FindConfigs == FindTargets \cup { [ip |-> ZeroIP, mask |-> 0] }

\* the adapter tables of the host: adapters 1..n, each with a configuration
FindTables ==
    UNION { { [k \in 1..n |-> [name |-> k, ip |-> f[k].ip, mask |-> f[k].mask]] :
                f \in [1..n -> FindConfigs] } : n \in 0..MaxAdapters }

FindInit ==
    /\ Resting
    /\ adapters \in FindTables
    /\ inst = << >>
    /\ probe \in Probes("getOrCreateHostOnlyNetwork", FindTargets)

\* one call: probe.out keeps, for each call made, whether it succeeded, the
\* adapter returned and the adapter table it left
ApplyGetOrCreate ==
    /\ probe.fn = "getOrCreateHostOnlyNetwork"
    /\ ~probe.done
    /\ LET got == getOrCreateHostOnlyNetwork(probe.in.ip, probe.in.mask, adapters) IN
       \E ok \in GetOrCreateOutcomes(probe.in.ip, probe.in.mask) :
          /\ adapters' = IF ok THEN got.nets ELSE adapters
          /\ probe' = [probe EXCEPT
                         !.out = Append(@, [ok |-> ok,
                                            adapter |-> IF ok THEN got.adapter ELSE NilAdapter,
                                            nets |-> adapters']),
                         !.done = (Len(probe.out) = 1)]
    /\ UNCHANGED <<vm, nic2, natpf, config, IPAddress, SSHPort, op, pc, stack, locals, rets,
                   trace, prevRemoved, inst>>

FindNext == ApplyGetOrCreate

FindSpec == FindInit /\ [][FindNext]_vars

-----------------------------------------------------------------------------
(* Reading the trace of the call in progress *)

Idx(c)     == {k \in 1..Len(trace) : trace[k].c = c}
Count(c)   == Cardinality(Idx(c))
IdxOk(c)   == {k \in Idx(c) : trace[k].ok}
Failed(c)  == \E k \in Idx(c) : ~trace[k].ok
\* position of the entry of function fn, 0 if it was not entered
EntryOf(fn) == IF Idx(fn) = {} THEN 0 ELSE CHOOSE k \in Idx(fn) : TRUE
\* the calls made since Start was entered
InStart(k) == EntryOf("Start") # 0 /\ k > EntryOf("Start")
Returned(fn) == rets[fn] # NoRet

\* the calls by which setupHostOnlyNetwork provisions the host-only network
ProvisionCalls == {"getOrCreateHostOnlyNetwork", "removeOrphanDHCPServers",
                   "addHostOnlyDHCPServer", "modifyvm_nic2"}
\* the calls of setPortForwarding
ForwardCalls == {"getAvailableTCPPort", "natpf_delete", "natpf_add"}

-----------------------------------------------------------------------------
(* C1 *)

\* C1: in a Start that read Stopped, every call provisioning the host-only
\* network precedes every call of the port forwarding, and a startvm is issued
\* only after the NIC 2 of the machine was attached and then the forwarding rule
\* added, both with success; once a provisioning step or the port forwarding
\* has failed, Start has returned an error and the call holds no startvm.
C1_StartFromStoppedOrder ==
    (Count("Start") = 1 /\ s = Stopped) =>
        /\ \A i, j \in 1..Len(trace) :
              (trace[i].c \in ProvisionCalls /\ trace[j].c \in ForwardCalls) => i < j
        /\ \A k \in Idx("startvm") :
              \E i \in IdxOk("modifyvm_nic2"), j \in IdxOk("natpf_add") : i < j /\ j < k
        /\ ( \/ rets["Start"] = ErrSetupNetwork
             \/ \E c \in ProvisionCalls : Failed(c)
             \/ Failed("getAvailableTCPPort")
             \/ Failed("natpf_add") )
           => (Returned("Start") /\ rets["Start"] # Nil /\ Count("startvm") = 0)

\* a Start from Stopped that has issued its startvm
C1_Witness ==
    Count("Start") = 1 /\ s = Stopped /\ Count("startvm") = 1 /\ pc = "Start_vtx"

\* a Start from Stopped whose port forwarding failed
C1_WitnessFailure ==
    Count("Start") = 1 /\ s = Stopped /\ Failed("natpf_add") /\ pc = "done"

-----------------------------------------------------------------------------
(* C2 *)

\* C2: one Start call enters Stop at most once, rewrites the adapter's IPv4
\* configuration at most once, issues at most two startvm, and lists the
\* adapters to validate them at most once.
C2_RepairAtMostOnce ==
    Count("Start") = 1 =>
        /\ Count("Stop") <= 1
        /\ Count("acpipowerbutton") <= 1
        /\ Count("SaveIPv4") <= 1
        /\ Count("startvm") <= 2
        /\ Count("listHostOnlyAdapters") <= 1

\* expected address and mask of the host-only adapter, as Start computes them
\* after the boot
Expected == parseAndValidateCIDR(HostOnlyCIDR)

\* a Start that repaired the adapter, booted again, and returned nil although
\* the second boot corrupted the adapter again
C2_Witness ==
    /\ op = "Start" /\ pc = "done" /\ rets["Start"] = Nil
    /\ Count("SaveIPv4") = 1 /\ Count("startvm") = 2
    /\ getHostOnlyAdapter(adapters, Expected.ip, Expected.network.Mask) = NilAdapter

-----------------------------------------------------------------------------
(* C3 *)

\* the calls of Stop itself that are logged in trace
StopCalls == {"showvminfo", "resume", "acpipowerbutton"}

\* the repair, in order
RepairSequence == <<"Sleep5s", "SaveIPv4", "Sleep5s", "startvm", "ipWaiter.Wait">>

\* what Start has logged since its repair path entered Stop: the calls of Stop,
\* then the calls of the repair
AfterStopEntry == SubSeq(trace, EntryOf("Stop") + 1, Len(trace))
StopPart   == SelectSeq(AfterStopEntry, LAMBDA e : e.c \in StopCalls)
RepairPart == SelectSeq(AfterStopEntry, LAMBDA e : e.c \notin StopCalls)

\* C3: Start enters Stop (the repair) only after it provisioned a host-only
\* network in this call from state Stopped, waited for the IP with success and
\* listed the adapters, none of which matched the expected address and mask.
\* What follows is the calls of Stop and then a prefix of: sleep, SaveIPv4,
\* sleep, startvm, wait for IP; the repair starts only once Stop returned nil,
\* nothing follows a failed step, and the SaveIPv4 rewrites the adapter that
\* provisioning returned and attached to the machine.
C3_RepairPath ==
    (Count("Start") = 1 /\ Count("Stop") = 1) =>
        LET k == EntryOf("Stop") IN
        /\ s = Stopped
        /\ hostOnlyAdapter # NilAdapter
        /\ hostOnlyAdapter = loc.adapter
        /\ \E i \in IdxOk("modifyvm_nic2") : i < k
        /\ trace[k - 1] = Ev("listHostOnlyAdapters", TRUE)
        /\ trace[k - 2] = Ev("ipWaiter.Wait", TRUE)
        /\ pc = "Stop_GetState" =>
               getHostOnlyAdapter(adapters, Expected.ip, Expected.network.Mask) = NilAdapter
        /\ AfterStopEntry = StopPart \o RepairPart
        /\ Len(RepairPart) <= Len(RepairSequence)
        /\ \A i \in 1..Len(RepairPart) :
              /\ RepairPart[i].c = RepairSequence[i]
              /\ i < Len(RepairPart) => RepairPart[i].ok
        /\ RepairPart # << >> => rets["Stop"] = Nil
        /\ pc = "Start_startvm2" =>
              \E a \in 1..Len(adapters) :
                 /\ adapters[a].name = hostOnlyAdapter.name
                 /\ adapters[a].name = nic2
                 /\ Matches(adapters[a], Expected.ip, Expected.network.Mask)

\* the repair ran to its end
C3_Witness ==
    /\ Count("Start") = 1
    /\ Len(RepairPart) = Len(RepairSequence)
    /\ pc = "done"

-----------------------------------------------------------------------------
(* C4 *)

\* the commands of Start and of what it calls that change the machine
MachineWrites == {"startvm", "resume_headless", "resume", "modifyvm_nic2",
                  "natpf_delete", "natpf_add"}

NoWriteInStart == \A k \in 1..Len(trace) : InStart(k) => trace[k].c \notin MachineWrites

\* C4 as stated: a Start that read a state other than Stopped or Paused
\* (Running, Saved, None) issues no startvm, no resume and no modifyvm.
C4_AsStated ==
    (Count("Start") = 1 /\ s \in {Running, Saved, None}) => NoWriteInStart

\* C4, amended: a Start that read Running or None issues no startvm, no resume
\* and no modifyvm; a Start that read Saved provisions no host-only network and
\* resumes nothing, but installs the port forwarding and then issues one
\* startvm before it reads the log.
C4_StartNoOp ==
    Count("Start") = 1 =>
        /\ s \in {Running, None} => NoWriteInStart
        /\ s = Saved =>
              /\ \A k \in 1..Len(trace) :
                    InStart(k) => trace[k].c \notin ProvisionCalls \cup {"resume_headless", "resume"}
              /\ hostOnlyAdapter = NilAdapter
              /\ Count("startvm") <= 1
              /\ \A k \in Idx("startvm") : \E j \in IdxOk("natpf_add") : j < k
              /\ \A r \in Idx("logsReader.Read") : \E k \in IdxOk("startvm") : k < r

\* a Start that found the machine running and returned nil
C4_Witness ==
    op = "Start" /\ pc = "done" /\ s = Running /\ rets["Start"] = Nil /\ Len(trace) = 4

-----------------------------------------------------------------------------
(* C5 *)

\* a line of the log that holds one of the three diagnostics
FailureLine(line) == line \cap {VTXDisabled, NoHWVirt, VMXUnable} # {}

LogHasFailure == \E k \in 1..Len(lines.lines) : FailureLine(lines.lines[k])

\* C5: when the log Start has read holds a line with one of the three
\* diagnostics, Start has returned ErrMustEnableVTX and the read of the log is
\* the last call of the operation (no wait for an IP, no repair, no boot); when
\* the log is readable and holds none, or was not read, Start does not return
\* ErrMustEnableVTX.
C5_VTXInLog ==
    /\ (lines.err = Nil /\ LogHasFailure) =>
          /\ rets["Start"] = ErrMustEnableVTX
          /\ trace[Len(trace)] = Ev("logsReader.Read", TRUE)
    /\ (lines.err # Nil \/ ~LogHasFailure) => rets["Start"] # ErrMustEnableVTX

\* a Start that booted the machine and found the unable-to-start code in its log
C5_Witness ==
    /\ op = "Start" /\ pc = "done" /\ Count("startvm") = 1
    /\ lines.err = Nil
    /\ \E k \in 1..Len(lines.lines) : VMXUnable \in lines.lines[k]

-----------------------------------------------------------------------------
(* C6 *)

\* C6: a Stop that read Paused issues one resume, and its power-button command
\* only after a resume that succeeded; a Stop that read another state issues no
\* resume; a Stop issues at most one power-button command, none if the resume
\* failed, and exactly one before it returns otherwise.
C6_StopResumesFirst ==
    Count("Stop") = 1 =>
        /\ Count("resume") <= 1
        /\ Count("acpipowerbutton") <= 1
        /\ \A k \in Idx("resume") \cup Idx("acpipowerbutton") : k > EntryOf("Stop")
        /\ currentState # Paused => Count("resume") = 0
        /\ (currentState = Paused /\ pc # "Stop_resume") => Count("resume") = 1
        /\ currentState = Paused =>
              \A a \in Idx("acpipowerbutton") : \E r \in IdxOk("resume") : r < a
        /\ Failed("resume") => (Count("acpipowerbutton") = 0 /\ rets["Stop"] = ErrCommand)
        /\ (Returned("Stop") /\ currentState # NoRet /\ ~Failed("resume"))
              => Count("acpipowerbutton") = 1

\* a Stop of a paused machine that returned nil
C6_Witness ==
    op = "Stop" /\ pc = "done" /\ currentState = Paused /\ rets["Stop"] = Nil

-----------------------------------------------------------------------------
(* C7 *)

\* C7: when Stop has returned nil, its power-button command succeeded, the
\* latest state query of its loop reported a state other than Running, and the
\* cached IPAddress is empty; when the latest query of the loop reported
\* Running, Stop has not returned and is still in the loop.
C7_StopWaits ==
    /\ rets["Stop"] = Nil =>
          /\ IdxOk("acpipowerbutton") # {}
          /\ lastPoll.err = Nil
          /\ lastPoll.st \notin {Running, NoRet}
          /\ IPAddress = ""
    /\ lastPoll.st = Running => (pc = "Stop_poll" /\ ~Returned("Stop"))

\* a Stop that returned nil after it polled a running machine
C7_Witness ==
    op = "Stop" /\ pc = "done" /\ rets["Stop"] = Nil /\ polls >= 1

-----------------------------------------------------------------------------
(* C8 *)

\* the state query of Remove (its first call) reported that the machine does
\* not exist
RemoveFoundNoMachine ==
    op = "Remove" /\ Len(trace) >= 2 /\ trace[2] = EvNote("showvminfo", FALSE, "notfound")

\* C8: a Remove whose state query reports that the machine does not exist
\* returns nil at once: it makes no other call (no command, no sleep, no Stop,
\* no Kill) and the machine stays absent. After a Remove that returned nil the
\* machine is absent, so that a next Remove whose state query is answered
\* returns nil as well.
C8_RemoveAbsent ==
    /\ RemoveFoundNoMachine =>
          /\ rets["Remove"] = Nil
          /\ pc = "done"
          /\ Len(trace) = 2
          /\ polls = 0
          /\ vm = Absent
    /\ (op = "Remove" /\ prevRemoved) =>
          /\ vm = Absent
          /\ Returned("Remove") =>
                (rets["Remove"] = Nil \/ trace[2] = EvNote("showvminfo", FALSE, ""))

\* a second Remove in a row that returned nil
C8_Witness ==
    op = "Remove" /\ prevRemoved /\ pc = "done" /\ rets["Remove"] = Nil

-----------------------------------------------------------------------------
(* C9 *)

\* C9: Remove calls Stop and not Kill when it read Running, neither when it
\* read Stopped, and Kill (poweroff) and not Stop when it read Paused, Saved or
\* None; an unregistervm comes after every call of the Stop or Kill, which has
\* returned nil.
C9_RemoveDispatch ==
    op = "Remove" =>
        /\ rs \in {NoRet, Running, Stopped, Paused, Saved, None}
        /\ rs = NoRet => (Count("Stop") = 0 /\ Count("Kill") = 0)
        /\ rs = Running =>
              (Count("Stop") = 1 /\ Count("Kill") = 0 /\ Count("poweroff") = 0)
        /\ rs = Stopped =>
              /\ Count("Stop") = 0 /\ Count("Kill") = 0
              /\ Count("poweroff") = 0 /\ Count("acpipowerbutton") = 0
        /\ rs \in {Paused, Saved, None} =>
              /\ Count("Kill") = 1 /\ Count("Stop") = 0 /\ Count("acpipowerbutton") = 0
              /\ Count("poweroff") <= 1
              /\ pc # "Kill_poweroff" => Count("poweroff") = 1
        /\ \A u \in Idx("unregistervm") :
              /\ \A k \in Idx("Stop") \cup Idx("Kill") \cup Idx("acpipowerbutton")
                          \cup Idx("poweroff") : k < u
              /\ rs = Running => rets["Stop"] = Nil
              /\ rs \in {Paused, Saved, None} => (rets["Kill"] = Nil /\ IdxOk("poweroff") # {})

\* a Remove of a paused machine that killed and unregistered it
C9_Witness ==
    op = "Remove" /\ pc = "done" /\ rs = Paused /\ IdxOk("unregistervm") # {}

-----------------------------------------------------------------------------
(* C10 *)

\* the calls that are no invocation of the hypervisor CLI
NotCLI == Functions \cup Collaborators \cup
          {"logsReader.Read", "ipWaiter.Wait", "getAvailableTCPPort", "Sleep5s", "Sleep1s",
           "getRandomIPinSubnet"}

\* call k of trace is a hypervisor command that failed
CLIFailure(k) == ~trace[k].ok /\ trace[k].c \notin NotCLI

\* the failure Remove turns into success
GoneInRemove(k) == op = "Remove" /\ k = 2 /\ trace[k].note = "notfound"

Discarded == {"natpf_delete", "poweroff_import"}

-----------------------------------------------------------------------------
(* C11 *)

\* the calls that create or modify a host-only adapter or a DHCP server
AdapterCalls == ProvisionCalls \cup {"SaveIPv4"}
\* the commands that delete or add a NAT forwarding rule
RuleCalls == {"natpf_delete", "natpf_add"}

\* every call of the set `calls` was made inside Start after it read a state of
\* the set `states`
OnlyInStartFrom(calls, states) ==
    \A k \in 1..Len(trace) : trace[k].c \in calls => (InStart(k) /\ s \in states)

\* C11 as stated: a call that creates or modifies a host-only adapter, a DHCP
\* server or a NAT forwarding rule is made only inside Start, and only when that
\* Start read Stopped.
C11_AsStated == OnlyInStartFrom(AdapterCalls \cup RuleCalls, {Stopped})

\* C11, amended: a call that creates or modifies a host-only adapter or a DHCP
\* server is made only inside a Start that read Stopped; a command that deletes
\* or adds a NAT forwarding rule is made only inside a Start that read Stopped or
\* Saved. Stop, Restart, Kill and Remove make none of them, nor does a Start
\* that read Paused, Running or None.
C11_NetworkOnlyInStart ==
    /\ OnlyInStartFrom(AdapterCalls, {Stopped})
    /\ OnlyInStartFrom(RuleCalls, {Stopped, Saved})

\* a Start of a saved machine that replaced the forwarding rule
C11_Witness ==
    op = "Start" /\ s = Saved /\ IdxOk("natpf_delete") # {} /\ IdxOk("natpf_add") # {}

-----------------------------------------------------------------------------
(* C12 *)

\* getAvailableTCPPort has been applied to the input of probe
Applied(fn) == probe.fn = fn /\ probe.done

\* C12 as stated: when the desired port is bound by another listener and the
\* system has a free port to give, getAvailableTCPPort returns no error and a
\* port that differs from the desired one and is not bound; when the desired
\* port is 0 and it returns no error, the port returned is not 0.
C12_AsStated ==
    Applied("getAvailableTCPPort") =>
        /\ (probe.in.port \in probe.in.busy /\ probe.in.pick \notin probe.in.busy) =>
              /\ probe.out.err = Nil
              /\ probe.out.port # probe.in.port
              /\ probe.out.port \notin probe.in.busy
        /\ (probe.in.port = 0 /\ probe.out.err = Nil) => probe.out.port # 0

\* what the code does: a desired port that is bound makes it fail with the
\* error of net.Listen and port 0; a desired port that is free is returned; for
\* the desired port 0 the port the system picked is returned, and it is not 0.
C12_BoundPortFails ==
    Applied("getAvailableTCPPort") =>
        /\ probe.in.port \in probe.in.busy =>
              probe.out = [err |-> ErrListen, port |-> 0]
        /\ (probe.in.port > 0 /\ probe.in.port \notin probe.in.busy) =>
              probe.out = [err |-> Nil, port |-> probe.in.port]
        /\ (probe.in.port = 0 /\ probe.out.err = Nil) =>
              (probe.out.port = probe.in.pick /\ probe.out.port # 0)

\* the desired port is bound, another port is free, and the allocation failed
C12_Witness ==
    /\ Applied("getAvailableTCPPort")
    /\ probe.in.port \in probe.in.busy
    /\ probe.in.pick \notin probe.in.busy
    /\ probe.out.err = ErrListen

-----------------------------------------------------------------------------
(* C13 *)

\* the forwarding rules of the machine named "ssh"
SSHRules == {r \in natpf : r.name = "ssh"}

\* every add of the rule comes after a delete of the rule in the same call,
\* and the machine never has two rules named "ssh"
DeleteBeforeAdd ==
    /\ \A k \in Idx("natpf_add") : \E j \in Idx("natpf_delete") : j < k
    /\ Cardinality(SSHRules) <= 1

\* C13 as stated: the delete of the rule named "ssh" is issued before its add,
\* so the machine has at most one rule of that name, and between two calls
\* that rule maps the host port stored in the driver's SSHPort to guest port 22.
C13_AsStated ==
    /\ DeleteBeforeAdd
    /\ pc \in {"idle", "done"} => \A r \in SSHRules : r = SSHRule(SSHPort)

\* what the code does: delete before add and at most one rule; the rule maps
\* SSHPort to guest port 22 unless a setPortForwarding failed, which left -1
\* in SSHPort; once the add of this call succeeded it is the only rule.
C13_ReplaceNotMerge ==
    /\ DeleteBeforeAdd
    /\ (pc \in {"idle", "done"} /\ SSHPort # -1) => \A r \in SSHRules : r = SSHRule(SSHPort)
    /\ IdxOk("natpf_add") # {} => (SSHPort # -1 /\ SSHRules = {SSHRule(SSHPort)})

\* a Start has failed in setPortForwarding: the old rule is in place and
\* SSHPort is -1
C13_Witness ==
    /\ op = "Start" /\ pc = "done" /\ SSHPort = -1
    /\ SSHRule(1) \in natpf
    /\ Failed("getAvailableTCPPort")

-----------------------------------------------------------------------------
(* C14 *)

\* the CIDR that setupHostOnlyNetwork uses, and its host IP
UsedCIDR == IF HostOnlyCIDR = EmptyCIDR THEN defaultHostOnlyCIDR ELSE HostOnlyCIDR
HostIP == UsedCIDR.ip

\* C14: getRandomIPinSubnet draws at most 5 values; the address it returns has
\* the first three octets of the host IP and a last octet that was drawn from
\* 0..24 and is not the host's, so it is never the host IP; it fails, with
\* ErrUnableToGenerateRandomIP, only after 5 draws, and then
\* setupHostOnlyNetwork has returned its error to Start without a call that
\* adds or modifies a DHCP server or attaches the adapter; a DHCP server is
\* added only right after getRandomIPinSubnet returned an address.
C14_RandomDHCPAddress ==
    /\ loc.i <= RandomTries
    /\ pc = "shn_random" => loc.i < RandomTries
    /\ pc = "shn_addDHCP" =>
          /\ trace[Len(trace)] = Ev("getRandomIPinSubnet", TRUE)
          /\ \A k \in 1..3 : loc.dhcpAddr[k] = HostIP[k]
          /\ loc.dhcpAddr[4] \in 0..(RandomRange - 1)
          /\ loc.dhcpAddr[4] # HostIP[4]
          /\ loc.dhcpAddr # HostIP
    /\ \A k \in Idx("getRandomIPinSubnet") :
          ~trace[k].ok =>
             /\ trace[k].note = ErrUnableToGenerateRandomIP
             /\ loc.i = RandomTries
             /\ k = Len(trace)
             /\ rets["Start"] = ErrSetupNetwork
             /\ Count("addHostOnlyDHCPServer") = 0
             /\ Count("modifyvm_nic2") = 0
    /\ loc.i = RandomTries => Failed("getRandomIPinSubnet")
    /\ \A k \in Idx("addHostOnlyDHCPServer") : trace[k - 1] = Ev("getRandomIPinSubnet", TRUE)

\* five draws gave the host's last octet: Start has failed
C14_Witness ==
    /\ op = "Start" /\ pc = "done"
    /\ Failed("getRandomIPinSubnet")
    /\ IdxOk("removeOrphanDHCPServers") # {}

-----------------------------------------------------------------------------
(* C15 *)

\* the network address of ip under a mask of `bits` bits: each octet cut down to
\* a multiple of the size of the part the mask leaves free
NetOf(ip, bits) ==
    [k \in 1..4 |->
        LET free == IF bits >= 8 * k THEN 1
                    ELSE IF bits <= 8 * (k - 1) THEN 256
                    ELSE Pow2(8 * k - bits)
        IN ip[k] - (ip[k] % free)]

\* the network address of the CIDR used
NetworkAddress == NetOf(UsedCIDR.ip, UsedCIDR.bits)

\* the server that call k of trace asked the hypervisor to install
ServerOf(k) == trace[k].note.dhcp

\* C15: the DHCP server that setupHostOnlyNetwork asks for is enabled, is bound
\* to the adapter found or created, has the mask of the CIDR, and has the lease
\* pool a.b.c.100 to a.b.c.254 where a.b.c are the first three octets of the
\* network address, whatever server address was drawn; for 10.0.5.1/24 the pool
\* is 10.0.5.100 to 10.0.5.254.
C15_DHCPLeaseBounds ==
    \A k \in Idx("addHostOnlyDHCPServer") :
        /\ ServerOf(k).Enabled
        /\ ServerOf(k).LowerIP =
              <<NetworkAddress[1], NetworkAddress[2], NetworkAddress[3], 100>>
        /\ ServerOf(k).UpperIP =
              <<NetworkAddress[1], NetworkAddress[2], NetworkAddress[3], 254>>
        /\ ServerOf(k).IPv4.Mask = UsedCIDR.bits
        /\ trace[k].note.adapter = loc.adapter.name
        /\ HostOnlyCIDR = CIDR(<<10, 0, 5, 1>>, 24) =>
              /\ ServerOf(k).LowerIP = <<10, 0, 5, 100>>
              /\ ServerOf(k).UpperIP = <<10, 0, 5, 254>>

\* the server was installed for 10.0.5.1/24 at the drawn address 10.0.5.2
C15_Witness ==
    /\ HostOnlyCIDR = CIDR(<<10, 0, 5, 1>>, 24)
    /\ \E k \in IdxOk("addHostOnlyDHCPServer") : ServerOf(k).IPv4.IP = <<10, 0, 5, 2>>

-----------------------------------------------------------------------------
(* C16 *)

\* C16: applied to a parsable CIDR whose host address is not the network
\* address, parseAndValidateCIDR returns no error, the host IP, the mask of the
\* CIDR, and the network address, which is the host IP masked with the mask
\* returned; applied to a CIDR whose host address is the network address it
\* returns ErrNetworkAddrCidr; applied to text that does not parse it returns
\* the error of the parser; the driver and the hypervisor are left as they were.
C16_ParseAndValidateCIDR ==
    Applied("parseAndValidateCIDR") =>
        /\ probe.in.kind # "cidr" => probe.out.err = ErrParseCIDR
        /\ (probe.in.kind = "cidr" /\ probe.in.ip # NetOf(probe.in.ip, probe.in.bits)) =>
              /\ probe.out.err = Nil
              /\ probe.out.ip = probe.in.ip
              /\ probe.out.network.Mask = probe.in.bits
              /\ NetOf(probe.out.ip, probe.out.network.Mask) = probe.out.network.IP
        /\ (probe.in.kind = "cidr" /\ probe.in.ip = NetOf(probe.in.ip, probe.in.bits)) =>
              probe.out.err = ErrNetworkAddrCidr
        /\ AtRest

\* 10.0.5.129/25 was parsed: host 10.0.5.129 in network 10.0.5.128
C16_Witness ==
    /\ Applied("parseAndValidateCIDR")
    /\ probe.in = CIDR(<<10, 0, 5, 129>>, 25)
    /\ probe.out.err = Nil
    /\ probe.out.network.IP = <<10, 0, 5, 128>>

-----------------------------------------------------------------------------
(* C17 *)

\* the token of the first VMState line of stdout, "" if there is none
FirstToken(stdout) ==
    IF \E k \in 1..Len(stdout) : stdout[k].key = "VMState"
    THEN stdout[CHOOSE k \in 1..Len(stdout) :
                  /\ stdout[k].key = "VMState"
                  /\ \A j \in 1..(k - 1) : stdout[j].key # "VMState"].value
    ELSE ""

\* the state the claim gives for a token
StateOfToken(tok) ==
    CASE tok = "running" -> Running
      [] tok = "paused" -> Paused
      [] tok = "saved" -> Saved
      [] tok \in {"poweroff", "aborted"} -> Stopped
      [] OTHER -> None

\* C17: when showvminfo succeeded GetState returns no error and the state of
\* the VMState token (running: Running, paused: Paused, saved: Saved, poweroff
\* and aborted: Stopped, any other token or no VMState line: None), whatever
\* stderr holds; when showvminfo failed it returns the state Error with an
\* error, which is ErrMachineNotExist exactly when stderr matches the
\* machine-not-found pattern.
C17_GetStateMapping ==
    Applied("GetState") =>
        /\ ~probe.in.failed =>
              /\ probe.out.err = Nil
              /\ probe.out.st = StateOfToken(FirstToken(probe.in.stdout))
        /\ probe.in.failed =>
              /\ probe.out.st = Error
              /\ probe.out.err # Nil
              /\ probe.out.err = ErrMachineNotExist <=> probe.in.notFound
        /\ probe.out.err # Nil => probe.in.failed

\* the token "aborted" was mapped to Stopped
C17_Witness ==
    /\ Applied("GetState")
    /\ ~probe.in.failed
    /\ FirstToken(probe.in.stdout) = "aborted"
    /\ probe.out = [st |-> Stopped, err |-> Nil]

-----------------------------------------------------------------------------
(* C18 *)

\* the calls of a Restart, in order
RestartSequence == <<"Restart", "reset", "ipWaiter.Wait">>

\* Restart has made a prefix of its calls, none of which reads the state of the
\* machine; a reset that failed is its last call and its error is returned;
\* once the reset succeeded the cached IP is empty, before the wait and after.
RestartInOrder ==
    op = "Restart" =>
        /\ Len(trace) <= Len(RestartSequence)
        /\ \A k \in 1..Len(trace) : trace[k].c = RestartSequence[k]
        /\ Count("showvminfo") = 0
        /\ Failed("reset") =>
              (Len(trace) = 2 /\ pc = "done" /\ rets["Restart"] = ErrCommand)
        /\ IdxOk("reset") # {} => IPAddress = ""
        /\ pc = "Restart_ipwait" => (IdxOk("reset") # {} /\ Len(trace) = 2)
        /\ rets["Restart"] = Nil => (Len(trace) = 3 /\ trace[3].ok)

\* a step in which the reset of Restart fails leaves the cached IP as it was
FailedResetKeepsIP ==
    (pc = "Restart_reset" /\ ~trace'[Len(trace')].ok) => IPAddress' = IPAddress

\* C18: Restart issues the reset without reading the state of the machine,
\* then clears the cached IPAddress, then waits for an IP; when the reset fails
\* Restart returns its error, makes no wait, and leaves IPAddress unchanged.
C18_RestartOrder == []RestartInOrder /\ [][FailedResetKeepsIP]_vars

\* a Restart that reset the machine, cleared the IP, waited and returned nil
C18_Witness ==
    /\ op = "Restart" /\ pc = "done" /\ rets["Restart"] = Nil
    /\ IdxOk("reset") # {} /\ IdxOk("ipWaiter.Wait") # {} /\ IPAddress = ""

\* a Restart whose reset failed: the cached IP is still there
C18_WitnessResetFailed ==
    op = "Restart" /\ pc = "done" /\ Failed("reset") /\ IPAddress # ""

-----------------------------------------------------------------------------
(* C19 *)

\* the steps of CreateVM that provision the new machine: all but the poweroff
\* of the machine to import, whose error is discarded
ProvisionSteps ==
    UNION { { CreateVMPlan(i, TRUE)[k] : k \in 1..Len(CreateVMPlan(i, TRUE)) } :
              i \in {"", "b2d"} }
        \ {"poweroff_import"}

\* the commands that would undo a creation
Compensation == {"unregistervm", "poweroff", "acpipowerbutton"}

\* C19: Create enters CreateVM first and Start only after CreateVM returned
\* nil, with every provisioning step made before it; a provisioning step that
\* failed is the last call of Create, which returns the error of that step:
\* no step follows, Start is not entered, no command undoes what was done, and
\* the machine, if createvm had registered it, stays registered.
C19_CreateNoRollback ==
    op = "Create" =>
        /\ Len(trace) >= 2 => trace[2] = Entered("CreateVM")
        /\ \A k \in Idx("Start") :
              /\ rets["CreateVM"] = Nil
              /\ \A j \in 1..Len(trace) : trace[j].c \in ProvisionSteps => (j < k /\ trace[j].ok)
        /\ \A k \in 1..Len(trace) :
              (trace[k].c \in ProvisionSteps /\ ~trace[k].ok) =>
                 /\ k = Len(trace)
                 /\ rets["CreateVM"] \in {ErrCommand, ErrCollab}
                 /\ pc \in {"Create_afterCreateVM", "done"}
                 /\ pc = "done" => rets["Create"] = rets["CreateVM"]
                 /\ Count("Start") = 0
                 /\ \A j \in 1..Len(trace) : trace[j].c \notin Compensation
                 /\ IdxOk("createvm") # {} => vm # Absent
        /\ (rets["CreateVM"] \notin {Nil, NoRet}) =>
              \E k \in 1..Len(trace) : trace[k].c \in ProvisionSteps /\ ~trace[k].ok

\* a Create that failed to attach the disk after it registered the machine
C19_Witness ==
    /\ op = "Create" /\ pc = "done"
    /\ IdxOk("createvm") # {} /\ Failed("storageattach_hdd")
    /\ rets["Create"] = ErrCommand
    /\ vm = "poweroff"

-----------------------------------------------------------------------------
(* C20 *)

\* the adapters of the host whose address and mask are those of CIDR c
MatchingAdapters(c) ==
    {k \in 1..Len(adapters) : Matches(adapters[k], c.ip, c.bits)}

\* C20 as stated: for every host-only CIDR, at most one adapter of the host's
\* table has its address and mask, also while several drivers with that CIDR
\* list the adapters and create one at the same time.
C20_AsStated ==
    \A c \in SharedCIDRs \cup {defaultHostOnlyCIDR} : Cardinality(MatchingAdapters(c)) <= 1

\* two drivers with the same CIDR have each created and configured an adapter
C20_Witness ==
    /\ inst # << >>
    /\ \E i, j \in DOMAIN inst :
          /\ i # j
          /\ inst[i].cidr = inst[j].cidr
          /\ inst[i].pc = "created" /\ inst[j].pc = "created"
          /\ inst[i].adapter.name # inst[j].adapter.name
          /\ {inst[i].adapter.name, inst[j].adapter.name} \subseteq
                 {adapters[k].name : k \in MatchingAdapters(inst[i].cidr)}

-----------------------------------------------------------------------------
(* C21: getOrCreateHostOnlyNetwork is idempotent: called twice in sequence   *)
(* with the same address and mask, both calls succeeding, the second call    *)
(* returns the adapter the first call returned (found or created) and leaves *)
(* the adapter table as the first call left it: it creates no adapter.       *)

C21_FindOrCreateIdempotent ==
    (Applied("getOrCreateHostOnlyNetwork") /\ probe.out[1].ok /\ probe.out[2].ok)
    => /\ probe.out[2].adapter = probe.out[1].adapter
       /\ probe.out[2].adapter.name = probe.out[1].adapter.name
       /\ probe.out[2].nets = probe.out[1].nets
       /\ adapters = probe.out[1].nets
       /\ Matches(probe.out[2].adapter, probe.in.ip, probe.in.mask)
       /\ \E k \in 1..Len(adapters) : adapters[k] = probe.out[2].adapter

\* two calls succeeded, the first of which created the adapter
C21_Witness ==
    /\ Applied("getOrCreateHostOnlyNetwork")
    /\ probe.out[1].ok /\ probe.out[2].ok
    /\ probe.out[1].adapter.name = Len(adapters)
    /\ Len(adapters) = MaxAdapters
    /\ \E k \in 1..Len(adapters) - 1 : adapters[k].ip = ZeroIP

-----------------------------------------------------------------------------
(* C22: setupHostOnlyNetwork makes its steps in a fixed order: it validates  *)
(* the CIDR, then calls getOrCreateHostOnlyNetwork, removeOrphanDHCPServers, *)
(* getRandomIPinSubnet, addHostOnlyDHCPServer for the adapter found, and     *)
(* last modifyvm --nic2. A step that fails is the last one made, and Start   *)
(* returns; so the orphan removal precedes the DHCP add, and the adapter is  *)
(* attached to the machine only after every earlier step succeeded.          *)

SetupSequence ==
    << "getOrCreateHostOnlyNetwork", "removeOrphanDHCPServers", "getRandomIPinSubnet",
       "addHostOnlyDHCPServer", "modifyvm_nic2" >>

\* the steps of setupHostOnlyNetwork made by the call in progress
SetupSteps ==
    SelectSeq(trace, LAMBDA e : \E k \in 1..Len(SetupSequence) : e.c = SetupSequence[k])

C22_SetupOrder ==
    LET n == Len(SetupSteps) IN
    /\ n <= Len(SetupSequence)
    /\ \A k \in 1..n : SetupSteps[k].c = SetupSequence[k]
    /\ \A k \in 1..n - 1 : SetupSteps[k].ok
    /\ n > 0 => SetupCIDR.err = Nil
    /\ (n > 0 /\ ~SetupSteps[n].ok) => rets["Start"] = ErrSetupNetwork
    /\ (pc = "shn_parse" \/ (SetupCIDR.err # Nil /\ Returned("Start"))) => n = 0
    /\ \A k \in Idx("addHostOnlyDHCPServer") :
          /\ \E j \in IdxOk("removeOrphanDHCPServers") : j < k
          /\ \E j \in IdxOk("getOrCreateHostOnlyNetwork") :
                /\ j < k
                /\ trace[k].note.adapter = loc.adapter.name
    /\ (IdxOk("modifyvm_nic2") # {} \/ hostOnlyAdapter # NilAdapter)
          => /\ n = Len(SetupSequence)
             /\ \A k \in 1..n : SetupSteps[k].ok
             /\ nic2 = loc.adapter.name

\* every step was made and the adapter is attached
C22_Witness ==
    /\ Len(SetupSteps) = Len(SetupSequence)
    /\ \A k \in 1..Len(SetupSteps) : SetupSteps[k].ok
    /\ nic2 = loc.adapter.name /\ nic2 # 0

\* the orphan removal failed: nothing is made after it
C22_WitnessFailure ==
    /\ Len(SetupSteps) = 2
    /\ ~SetupSteps[2].ok
    /\ Returned("Start")

-----------------------------------------------------------------------------
(* C23: Remove issues unregistervm only after the Stop or Kill it had to     *)
(* call has returned nil, and right after a sleep; when that Stop or Kill    *)
(* fails, Remove returns its error, makes no sleep and no unregistervm, and  *)
(* the machine stays registered; when the state query of Remove fails with   *)
(* an error other than ErrMachineNotExist, Remove returns that error and     *)
(* makes no other call.                                                      *)

\* the state query of Remove failed, and not because the machine is unknown
RemoveQueryFailed ==
    op = "Remove" /\ Len(trace) >= 2 /\ trace[2] = EvNote("showvminfo", FALSE, "")

\* Remove called Stop or Kill, which has returned an error
RemoveCalleeFailed ==
    /\ op = "Remove" /\ pc = "done"
    /\ rs # NoRet /\ RemoveDispatch(rs) # "none"
    /\ rets[RemoveDispatch(rs)] \notin {Nil, NoRet}

C23_RemoveAfterStopOrKill ==
    op = "Remove" =>
        /\ Count("unregistervm") <= 1
        /\ \A u \in Idx("unregistervm") :
              /\ trace[u - 1] = Ev("Sleep1s", TRUE)
              /\ u = Len(trace)
              /\ rs # NoRet
              /\ RemoveDispatch(rs) # "none" =>
                    /\ rets[RemoveDispatch(rs)] = Nil
                    /\ Idx(RemoveDispatch(rs)) # {}
                    /\ \A k \in Idx(RemoveDispatch(rs)) : k < u - 1
        /\ RemoveCalleeFailed =>
              /\ rets["Remove"] = rets[RemoveDispatch(rs)]
              /\ Count("unregistervm") = 0 /\ Count("Sleep1s") = 0
              /\ vm # Absent
        /\ RemoveQueryFailed =>
              /\ rets["Remove"] = ErrCommand
              /\ Len(trace) = 2
              /\ rs = NoRet
              /\ pc = "done"

\* the Stop that Remove called failed after the machine was asked to shut down
C23_Witness ==
    /\ RemoveCalleeFailed /\ rs = Running
    /\ IdxOk("acpipowerbutton") # {}
    /\ rets["Remove"] = ErrCommand

\* a running machine was stopped, then unregistered
C23_WitnessUnregistered ==
    /\ op = "Remove" /\ pc = "done" /\ rs = Running
    /\ IdxOk("unregistervm") # {} /\ vm = Absent

\* the state query failed on a machine that is registered
C23_WitnessQueryFailed == RemoveQueryFailed /\ pc = "done" /\ vm # Absent

-----------------------------------------------------------------------------
(* C24: when every command returns and the hypervisor ends up answering a    *)
(* state query of the loop of Stop with a failure or with a state other than *)
(* Running, every Stop that was entered returns, and so does the Stop, the   *)
(* Remove or the Start (repair path) that entered it. The loop has no bound: *)
(* as long as the machine runs, one more turn that stays in the loop is      *)
(* possible whatever the number of turns made.                               *)

\* Stop was entered and has not returned
InStop == pc \in {"Stop_GetState", "Stop_resume", "Stop_acpi", "Stop_poll"}

\* the operation that called Stop
StopCallers == {"Stop", "Remove", "Start"}

OneMoreTurn == (pc = "Stop_poll" /\ vm = "running") => ENABLED StopPollStays

C24_StopTerminates ==
    /\ InStop ~> Returned("Stop")
    /\ (InStop /\ op \in StopCallers) ~> (pc = "done")
    /\ []OneMoreTurn

\* C24, second half, negated: Stop returns although nothing makes the guest
\* shut down.
C24_AlwaysReturns == InStop ~> Returned("Stop")

\* a Stop called by the repair path of Start has made as many turns as counted
C24_Witness ==
    /\ op = "Start" /\ pc = "Stop_poll" /\ polls = MaxPolls /\ vm = "running"

\* ... and has returned after them
C24_WitnessReturned ==
    /\ op = "Start" /\ Returned("Stop") /\ polls = MaxPolls

-----------------------------------------------------------------------------
(* C25 *)

\* PreCreateCheck has returned err
PreReturned(err) == op = "PreCreateCheck" /\ rets["PreCreateCheck"] = err

\* the version of VBoxManage was read and is a supported one
VersionSupported == IdxOk("checkVBoxManageVersion") # {}

\* C25 as stated: with the option set, PreCreateCheck never returns
\* ErrMustEnableVTX or ErrNotCompatibleWithHyperV; with the option not set, it
\* returns ErrNotCompatibleWithHyperV if Hyper-V is installed and otherwise
\* ErrMustEnableVTX if VT-x is disabled, and in both cases neither the boot
\* image cache update nor the adapter listing is made.
C25_AsStated ==
    (op = "PreCreateCheck" /\ Returned("PreCreateCheck")) =>
        /\ NoVTXCheck =>
              rets["PreCreateCheck"] \notin {ErrMustEnableVTX, ErrNotCompatibleWithHyperV}
        /\ (~NoVTXCheck /\ probe.in.hyperV) => PreReturned(ErrNotCompatibleWithHyperV)
        /\ (~NoVTXCheck /\ ~probe.in.hyperV /\ probe.in.vtxDisabled) =>
              PreReturned(ErrMustEnableVTX)
        /\ rets["PreCreateCheck"] \in {ErrMustEnableVTX, ErrNotCompatibleWithHyperV} =>
              (Count("UpdateISOCache") = 0 /\ Count("listHostOnlyAdapters") = 0)

\* C25, amended: with the option set, PreCreateCheck asks the host neither
\* for Hyper-V nor for VT-x and never returns ErrMustEnableVTX or
\* ErrNotCompatibleWithHyperV; with the option not set, and once VBoxManage
\* --version has succeeded with a supported version, it returns
\* ErrNotCompatibleWithHyperV if Hyper-V is installed and otherwise
\* ErrMustEnableVTX if VT-x is disabled; in both cases neither the boot image
\* cache update nor the adapter listing is made. When the version cannot be
\* read or is not supported, PreCreateCheck returns that error, whatever the
\* option and the host.
C25_PreCreateCheckVTX ==
    op = "PreCreateCheck" =>
        /\ NoVTXCheck =>
              /\ rets["PreCreateCheck"] \notin {ErrMustEnableVTX, ErrNotCompatibleWithHyperV}
              /\ Count("isHyperVInstalled") = 0 /\ Count("IsVTXDisabled") = 0
        /\ (Returned("PreCreateCheck") /\ ~NoVTXCheck /\ VersionSupported) =>
              /\ probe.in.hyperV => PreReturned(ErrNotCompatibleWithHyperV)
              /\ (~probe.in.hyperV /\ probe.in.vtxDisabled) => PreReturned(ErrMustEnableVTX)
        /\ (Returned("PreCreateCheck") /\ ~VersionSupported) =>
              /\ rets["PreCreateCheck"] \in {ErrCommand, ErrCollab}
              /\ Count("isHyperVInstalled") = 0 /\ Count("IsVTXDisabled") = 0
        /\ rets["PreCreateCheck"] \in {ErrMustEnableVTX, ErrNotCompatibleWithHyperV} =>
              /\ Count("UpdateISOCache") = 0 /\ Count("listHostOnlyAdapters") = 0
              /\ ~NoVTXCheck /\ VersionSupported
        /\ \A k \in Idx("UpdateISOCache") \cup Idx("listHostOnlyAdapters") :
              /\ VersionSupported
              /\ ~NoVTXCheck => (~probe.in.hyperV /\ ~probe.in.vtxDisabled)

\* the option is not set, Hyper-V is installed and VT-x is disabled: the
\* Hyper-V error is returned and VT-x was not asked for
C25_Witness ==
    /\ PreReturned(ErrNotCompatibleWithHyperV)
    /\ ~NoVTXCheck /\ probe.in.hyperV /\ probe.in.vtxDisabled
    /\ Count("IsVTXDisabled") = 0

\* the option is set on such a host: PreCreateCheck returned nil
C25_WitnessOptionSet ==
    /\ PreReturned(Nil)
    /\ NoVTXCheck /\ probe.in.hyperV /\ probe.in.vtxDisabled
    /\ IdxOk("listHostOnlyAdapters") # {}

\* VT-x is disabled on a host without Hyper-V
C25_WitnessVTX ==
    PreReturned(ErrMustEnableVTX) /\ ~probe.in.hyperV

-----------------------------------------------------------------------------
(* C26 *)

\* the command by which Start boots or resumes a machine read in state st,
\* NoRet when it issues none
BootOf(st) ==
    IF st \in {Stopped, Saved} THEN "startvm"
    ELSE IF st = Paused THEN "resume_headless"
    ELSE NoRet

\* the state query of Start succeeded, and so did its boot or resume if any
StartBooted ==
    /\ op = "Start" /\ s # NoRet
    /\ BootOf(s) # NoRet => IdxOk(BootOf(s)) # {}

\* C26: once the state query of Start and its boot or resume, if the state
\* read calls for one, have succeeded, Start reads the log of the machine as
\* its next call, whatever the state read and whatever NoVTXCheck: right
\* after the boot or resume, or right after the state query when the machine
\* was read Running or in an unknown state. An unreadable log or a log with
\* a diagnostic ends Start with an error (ErrMustEnableVTX for the latter);
\* otherwise the wait for an IP is the next call, and its error is returned.
\* Start reads the log in no other case.
C26_StartChecksVTXThenWaits ==
    /\ StartBooted =>
          /\ pc = "Start_vtx" \/ Count("logsReader.Read") = 1
          /\ \A r \in Idx("logsReader.Read") :
                /\ IF BootOf(s) = NoRet
                   THEN r = 3 /\ trace[2] = EvNote("showvminfo", TRUE, "")
                   ELSE trace[r - 1] = Ev(BootOf(s), TRUE)
                /\ lines.err # Nil => (rets["Start"] = ErrCheckingVTX /\ r = Len(trace))
                /\ (lines.err = Nil /\ LogHasFailure) =>
                      (rets["Start"] = ErrMustEnableVTX /\ r = Len(trace))
                /\ (lines.err = Nil /\ ~LogHasFailure) =>
                      \/ pc = "Start_ipwait" /\ r = Len(trace)
                      \/ /\ r < Len(trace)
                         /\ trace[r + 1].c = "ipWaiter.Wait"
                         /\ ~trace[r + 1].ok =>
                               (rets["Start"] = ErrIPWait /\ r + 1 = Len(trace))
    /\ (op = "Start" /\ ~StartBooted) => Count("logsReader.Read") = 0

\* with the option set, a Start of a running machine issued no command and
\* returned ErrMustEnableVTX
C26_Witness ==
    /\ op = "Start" /\ pc = "done" /\ NoVTXCheck
    /\ s = Running /\ Len(trace) = 3
    /\ rets["Start"] = ErrMustEnableVTX

\* a Start of a machine in an unknown state failed in its wait for an IP
C26_WitnessIPWait ==
    /\ op = "Start" /\ pc = "done"
    /\ s = None /\ Len(trace) = 4
    /\ rets["Start"] = ErrIPWait

=============================================================================
